---- MODULE Spec2Model ----
(***************************************************************************)
(* Model of the classification orchestrator of trending-skills            *)
(* (src/src/claude_summarizer.py): ClaudeSummarizer.summarize_and_classify *)
(* fans a batch of detail records out over a thread pool; every task runs  *)
(* _analyze_single_skill = _chat_completions (the retry loop around one    *)
(* HTTP POST) followed by _parse_single_response; the main thread collects *)
(* the futures as they complete and converts the failed ones to fallback   *)
(* results.                                                                *)
(*                                                                         *)
(* Texts are modelled as sequences of string parts (an f-string is the     *)
(* sequence of its pieces), Chinese literals are written in ASCII.         *)
(*                                                                         *)
(* The stages that run before the summarizer are modelled each under a     *)
(* specification of its own: SkillsFetcher.parse_leaderboard (SpecFetch)   *)
(* and SkillsFetcher._parse_installs (SpecInstalls) of                     *)
(* src/src/skills_fetcher.py, DetailFetcher.fetch_top20_details            *)
(* (SpecDetail) of src/src/detail_fetcher.py.  SpecBackoff follows the     *)
(* retry loop of one record through many attempts.  SpecLoad is the retry  *)
(* loop of SkillsFetcher._fetch_async around parse_leaderboard, SpecWhen   *)
(* is DetailFetcher._extract_when_to_use with _extract_section_text, on    *)
(* pages whose texts are strings.  A specification leaves the variables    *)
(* of the other stages at rest.                                            *)
(***************************************************************************)
EXTENDS Integers, Sequences, FiniteSets, TLC

\* ------------------------------------------------------------------ bounds

\* Largest batch handed to summarize_and_classify.
NumItems == 2

\* Largest max_retries a summarizer is constructed with.
MaxRetries == 2

\* Largest worker pool.  The code's pool has 20 workers (max_workers=20); the
\* model scales it down and examines every pool size from 1 to this bound, so
\* that batches both within and beyond the pool occur.
MaxWorkers == 2

\* Largest max_retries of the summarizer whose retry loop is followed alone
\* (one record, one worker), large enough for the backoff to reach its cap.
MaxAttempts == 9

\* Most records on the board of a leaderboard page.
MaxRecords == 21

\* The boards of at most this many records come with every marker and in
\* every layout; the longer ones with one marker and in one layout.
SmallBoard == 2

\* Most records a page carries besides its board (repeats, other formats).
MaxExtras == 1

\* Longest installs token, in characters.
MaxTokenLen == 4

\* Most skills handed to the detail stage, and most of them whose page fails.
MaxSkills == 21
MaxFailures == 2

\* ------------------------------------------------------------ configuration

\* CATEGORIES: the 15 keys and their labels (labels transliterated).
CATEGORIES ==
    [ frontend      |-> "zh:qianduan-kaifa",
      backend       |-> "zh:houduan-kaifa",
      mobile        |-> "zh:yidong-kaifa",
      devops        |-> "zh:yunwei-bushu",
      video         |-> "zh:shipin-chuli",
      animation     |-> "zh:donghua",
      data          |-> "zh:shuju-chuli",
      ai            |-> "zh:AI-ML",
      testing       |-> "zh:ceshi",
      marketing     |-> "zh:yingxiao-SEO",
      documentation |-> "zh:wendang",
      design        |-> "zh:sheji",
      database      |-> "zh:shujuku",
      security      |-> "zh:anquan",
      other         |-> "zh:qita" ]

\* The names of the detail records of a batch, in input order.
NameTable == << "skill-a", "skill-b", "skill-c", "skill-d", "skill-e" >>

\* detail.get("name") of the i-th input record.
DetailName(i) == NameTable[i]

\* ------------------------------------------------------- values of the model

\* A text: a string given by its parts, or None (JSON null).
Str(parts) == [k |-> "str", parts |-> parts]
None       == [k |-> "null", parts |-> << >>]
Absent     == [k |-> "absent", parts |-> << >>]

\* A value of the "solves" key: a list of strings, a string (its characters),
\* null, a number, or no key at all.
SolvesList(items) == [k |-> "list", items |-> items]
SolvesStr(chars)  == [k |-> "str", items |-> chars]
SolvesNull        == [k |-> "null", items |-> << >>]
SolvesNumber      == [k |-> "number", items |-> << >>]
SolvesAbsent      == [k |-> "absent", items |-> << >>]

\* A value of the "category" key: a string, a JSON list, null, or no key.
CatStr(s)  == [k |-> "str", v |-> s]
CatList    == [k |-> "list", v |-> ""]
CatNull    == [k |-> "null", v |-> ""]
CatAbsent  == [k |-> "absent", v |-> ""]

\* A decoded JSON object, by the keys _parse_single_response reads.
Obj(summary, description, use_case, solves, category, category_zh) ==
    [ summary |-> summary, description |-> description, use_case |-> use_case,
      solves |-> solves, category |-> category, category_zh |-> category_zh ]

\* The object {}.
EmptyObj == Obj(Absent, Absent, Absent, SolvesAbsent, CatAbsent, Absent)

\* The text of choices[0].message.content:
\*   fence   "none" | "block" (```json, newline, payload, newline, ```)
\*           | "inline" (``` payload ``` on one line)
\*   text    "json" (the payload is exactly one JSON value) | "prose" (the JSON
\*           value stands inside prose) | "garbage" (no JSON value, no braces)
\*           | "broken" (braces around text that is not JSON)
\*   shape   of the JSON value: "object" | "array" (one object) | "empty_array"
\*           | "array_of_scalar" | "scalar" | "null"
\*   obj     the object (of an "object", or the element of an "array")
Content(fence, text, shape, obj) ==
    [fence |-> fence, text |-> text, shape |-> shape, obj |-> obj]

NoContent == Content("none", "garbage", "null", EmptyObj)

\* What one session.post may end in:
\*   kind    "timeout" | "connection_error" | "http"
\*   status  the HTTP status code (0 when there is no response)
\*   body    "completion" (a JSON object with choices[0].message.content a
\*           non-empty string) | "no_content" (a JSON object without usable
\*           content) | "not_object" (JSON that is no object, or a null
\*           message) | "not_json"
Outcome(kind, status, body, content) ==
    [kind |-> kind, status |-> status, body |-> body, content |-> content]

\* resp = None, no exception yet (line 321).
NoResp == Outcome("none", 0, "not_json", NoContent)

\* ------------------------------------------------------------ pure functions

\* a[:5] of a list or a string
FirstFive(items) == SubSeq(items, 1, IF Len(items) < 5 THEN Len(items) ELSE 5)

\* ["dai-fenxi"]: the placeholder list of solves
SolvesPlaceholder == SolvesList(<< "dai-fenxi" >>)

\* A result of a task; NoResult stands where there is none.
NoResult ==
    [ name |-> "", summary |-> None, description |-> None, use_case |-> None,
      solves |-> SolvesNull, category |-> "", category_zh |-> "",
      fallback |-> FALSE ]

\* Lines 225-230: the text left once the fences are cleaned away.  A block
\* fence loses its first line and its closing fence; an inline fence has no
\* newline to split at, keeps its opening ``` and so no longer is JSON as a
\* whole.
CleanedText(content) ==
    IF content.fence = "inline" /\ content.text = "json" THEN "prose"
    ELSE content.text

\* Lines 232-241: json.loads(cleaned), and on JSONDecodeError the span from
\* the first "{" to the last "}".  The span of an object or of a one-object
\* array is that object; another value has no braces.
DecodeJson(content) ==
    LET t == CleanedText(content) IN
    IF t = "json" THEN [exc |-> "", shape |-> content.shape, obj |-> content.obj]
    ELSE IF t = "prose" /\ content.shape \in {"object", "array"}
         THEN [exc |-> "", shape |-> "object", obj |-> content.obj]
         ELSE [exc |-> "JSONDecodeError", shape |-> "null", obj |-> EmptyObj]

\* A slip in lines 243-245: a list is left as it is.
FirstElement_keepsList(d) == d

\* Lines 243-245: of a list its first element, of an empty list {}.
FirstElement(d) ==
    CASE d.shape = "array"           -> [d EXCEPT !.shape = "object"]
      [] d.shape = "empty_array"     -> [d EXCEPT !.shape = "object", !.obj = EmptyObj]
      [] d.shape = "array_of_scalar" -> [d EXCEPT !.shape = "scalar"]
      [] OTHER                       -> d

\* Lines 247-250: the validated category of a decoded object.
ValidCategory(category) ==
    IF category.k = "str" /\ category.v \in DOMAIN CATEGORIES
    THEN category.v
    ELSE "other"

\* A slip in line 259: the label the model sent is trusted when there is one.
CategoryZh_fromModel(category, data) ==
    IF data.category_zh.k = "str" /\ data.category_zh.parts # << >>
    THEN data.category_zh.parts[1]
    ELSE "zh:qita"

\* Line 259: CATEGORIES.get(category, "zh:qita"), whatever label data carries
CategoryZh(category, data) ==
    IF category \in DOMAIN CATEGORIES THEN CATEGORIES[category] ELSE "zh:qita"

\* Line 257: data.get("solves", [])[:5] or ["dai-fenxi"]
ResultSolves(solves) ==
    LET v == IF solves.k = "absent" THEN SolvesList(<< >>) ELSE solves IN
    IF FirstFive(v.items) = << >>
    THEN SolvesPlaceholder
    ELSE [k |-> v.k, items |-> FirstFive(v.items)]

\* data.get(key, default) of a text key
GetOr(value, default) == IF value.k = "absent" THEN default ELSE value

\* _parse_single_response(text, detail): [exc, result]; exc is "" when the
\* result is returned and the class of the exception raised otherwise.
_parse_single_response(content, name) ==
    LET decoded == DecodeJson(content)
        d       == FirstElement(decoded)
        data    == d.obj
        category == ValidCategory(data.category)
    IN
    CASE decoded.exc # "" ->
            [exc |-> decoded.exc, result |-> NoResult]
      [] decoded.exc = "" /\ d.shape # "object" ->
            \* data.get on a number, a string or None
            [exc |-> "AttributeError", result |-> NoResult]
      [] decoded.exc = "" /\ d.shape = "object" /\ data.category.k = "list" ->
            \* an unhashable category tested against the dict
            [exc |-> "TypeError", result |-> NoResult]
      [] decoded.exc = "" /\ d.shape = "object" /\ data.category.k # "list"
            /\ data.solves.k \in {"null", "number"} ->
            \* None[:5], 3[:5]
            [exc |-> "TypeError", result |-> NoResult]
      [] OTHER ->
            [ exc |-> "",
              result |->
                [ name        |-> name,
                  summary     |-> GetOr(data.summary, Str(<< name, " jineng" >>)),
                  description |-> GetOr(data.description, Str(<< >>)),
                  use_case    |-> GetOr(data.use_case, Str(<< >>)),
                  solves      |-> ResultSolves(data.solves),
                  category    |-> category,
                  category_zh |-> CategoryZh(category, data),
                  fallback    |-> FALSE ] ]

\* A slip in line 280: the fallback result is not flagged.
_fallback_single_unflagged(name) ==
    [ name        |-> name,
      summary     |-> Str(<< name, " - AI fenxi zan bukeyong" >>),
      description |-> Str(<< "jineng mingcheng: ", name >>),
      use_case    |-> Str(<< "dai-fenxi" >>),
      solves      |-> SolvesList(<< "dai-fenxi" >>),
      category    |-> "other",
      category_zh |-> "zh:qita",
      fallback    |-> FALSE ]

\* _fallback_single(detail)
_fallback_single(name) ==
    [ name        |-> name,
      summary     |-> Str(<< name, " - AI fenxi zan bukeyong" >>),
      description |-> Str(<< "jineng mingcheng: ", name >>),
      use_case    |-> Str(<< "dai-fenxi" >>),
      solves      |-> SolvesList(<< "dai-fenxi" >>),
      category    |-> "other",
      category_zh |-> "zh:qita",
      fallback    |-> TRUE ]

\* A slip in lines 289-293: every HTTPError is retried, whatever its status.
_should_retry_anyStatus(exc, status_code) ==
    exc \in {"Timeout", "ConnectionError", "JSONDecodeError", "HTTPError",
             "ValueError"}

\* _should_retry(exc, status_code): exc is the exception's class, status_code
\* the set holding the response's status (empty for None).
_should_retry(exc, status_code) ==
    \/ exc \in {"Timeout", "ConnectionError"}
    \/ exc = "JSONDecodeError"
    \/ /\ exc = "HTTPError"
       /\ \E s \in status_code : s \in {408, 409, 429} \/ (500 <= s /\ s <= 599)
    \/ exc = "ValueError"

\* Lines 322-348: one pass through the try block on the outcome of the post:
\* the class of the exception raised, "" when content is returned.
AttemptExc(o) ==
    CASE o.kind = "timeout"          -> "Timeout"
      [] o.kind = "connection_error" -> "ConnectionError"
      [] o.kind = "http" /\ (o.status \in {408, 409, 429} \/ o.status >= 500)
                                     -> "HTTPError"
      \* resp.raise_for_status()
      [] o.kind = "http" /\ 400 <= o.status /\ o.status < 600
            /\ ~(o.status \in {408, 409, 429} \/ o.status >= 500)
                                     -> "HTTPError"
      [] o.kind = "http" /\ o.status < 400 /\ o.body = "not_json"
                                     -> "JSONDecodeError"
      [] o.kind = "http" /\ o.status < 400 /\ o.body = "not_object"
                                     -> "AttributeError"
      [] o.kind = "http" /\ o.status < 400 /\ o.body = "no_content"
                                     -> "ValueError"
      [] OTHER                       -> ""

\* Line 352: the status code the except block reads off resp.
StatusCode(o) == IF o.kind = "http" THEN {o.status} ELSE {}

RECURSIVE Pow(_, _)
\* b ** e
Pow(b, e) == IF e = 0 THEN 1 ELSE b * Pow(b, e - 1)

\* random.random(): a number of [0, 1), here one of 0, 1/4, 1/2, 3/4 (the
\* numerators over 4)
Random == 0 .. 3

\* No sleep in progress
NoSleep == [num |-> 0, den |-> 1]

\* A slip in line 373: the delay grows without the cap.
Backoff_uncapped(k, r) ==
    [num |-> 4 * Pow(8, k - 1) + r * Pow(5, k - 1), den |-> 4 * Pow(5, k - 1)]

\* Line 373: min(20.0, 1.6 ** (attempt - 1) + random.random()) seconds, as the
\* fraction num/den with den = 4 * 5 ** (attempt - 1); 1.6 is 8/5.
Backoff(k, r) ==
    LET den == 4 * Pow(5, k - 1)
        raw == 4 * Pow(8, k - 1) + r * Pow(5, k - 1)
    IN  [num |-> IF 20 * den < raw THEN 20 * den ELSE raw, den |-> den]

\* ------------------------------------------------- what the service returns

GoodObj ==
    Obj(Str(<< "yi ju hua" >>), Str(<< "miaoshu" >>), Str(<< "changjing" >>),
        SolvesList(<< "g1", "g2", "g3" >>), CatStr("frontend"),
        Str(<< "zh:qianduan-kaifa" >>))

\* The contents a completion may carry.
Contents ==
    { Content("none", "json", "object", GoodObj),
      \* a fenced array whose object names no category of the enumeration
      Content("block", "json", "array",
              [GoodObj EXCEPT !.category = CatStr("nonsense"),
                              !.category_zh = Str(<< "zh:bu-cunzai" >>)]),
      \* a valid key with another key's label
      Content("none", "json", "object",
              [GoodObj EXCEPT !.category = CatStr("security"),
                              !.category_zh = Str(<< "zh:qianduan-kaifa" >>)]),
      Content("none", "json", "object",
              [GoodObj EXCEPT !.solves = SolvesList(<< "g1", "g1", "g2" >>)]),
      Content("none", "json", "object",
              [GoodObj EXCEPT !.solves =
                  SolvesList(<< "g1", "g2", "g3", "g4", "g5", "g6" >>)]),
      Content("none", "json", "object",
              [GoodObj EXCEPT !.solves =
                  SolvesStr(<< "a", ",", "b", ",", "c", ",", "d" >>)]),
      Content("none", "json", "object",
              [GoodObj EXCEPT !.solves = SolvesList(<< >>)]),
      Content("none", "json", "object", [GoodObj EXCEPT !.solves = SolvesNull]),
      Content("none", "json", "object", [GoodObj EXCEPT !.category = CatList]),
      Content("none", "json", "object", [GoodObj EXCEPT !.summary = None]),
      Content("none", "json", "object", [GoodObj EXCEPT !.summary = Str(<< >>)]),
      \* a summary of blanks only
      Content("none", "json", "object", [GoodObj EXCEPT !.summary = Str(<< " " >>)]),
      Content("none", "json", "object", EmptyObj),
      Content("none", "json", "empty_array", EmptyObj),
      \* fenced and array-wrapped forms of the good object, of {} and of an
      \* object with an ill-typed field
      Content("block", "json", "object", GoodObj),
      Content("none", "json", "array", GoodObj),
      Content("block", "prose", "array", GoodObj),
      Content("block", "json", "empty_array", EmptyObj),
      Content("block", "json", "object", [GoodObj EXCEPT !.solves = SolvesNull]),
      Content("none", "json", "scalar", EmptyObj),
      Content("none", "json", "array_of_scalar", EmptyObj),
      Content("none", "prose", "object", GoodObj),
      Content("inline", "json", "object", GoodObj),
      Content("none", "garbage", "null", EmptyObj),
      Content("block", "broken", "null", EmptyObj) }

Http(status) == Outcome("http", status, "not_json", NoContent)

\* The ways one post may end.
Outcomes ==
    { Outcome("timeout", 0, "not_json", NoContent),
      Outcome("connection_error", 0, "not_json", NoContent),
      Http(400), Http(401), Http(408), Http(409), Http(429), Http(500),
      Http(503), Http(200),
      Outcome("http", 200, "no_content", NoContent),
      Outcome("http", 200, "not_object", NoContent) }
    \cup { Outcome("http", 200, "completion", c) : c \in Contents }

\* One outcome for each way through a task: a good completion, a completion
\* that is validated into shape, a completion that does not decode, a
\* retryable failure and a fatal one.
CoreOutcomes ==
    { Outcome("http", 200, "completion", Content("none", "json", "object", GoodObj)),
      Outcome("http", 200, "completion",
              Content("block", "json", "array",
                      [GoodObj EXCEPT !.category = CatStr("nonsense"),
                                      !.category_zh = Str(<< "zh:bu-cunzai" >>)])),
      Outcome("http", 200, "completion", Content("none", "garbage", "null", EmptyObj)),
      Http(429), Http(401) }

\* ------------------------------------------------------------------- state

VARIABLES
    details,      \* the batch: the names of the input records, in input order
    max_retries,  \* self.max_retries
    max_workers,  \* the size of the executor's pool
    mainpc,       \* the main thread: "start" | "submitted" | "collecting"
                  \*                  | "returned"
    pc,           \* per task: "pending" | "in_flight" | "retrying"
                  \*           | "succeeded" | "failed"
    attempt,      \* per task: the loop variable of _chat_completions
    posts,        \* per task: the requests issued so far
    resp,         \* per task: the outcome of the current attempt's post
    last_exc,     \* per task: the class of the last exception raised ("" none)
    future,       \* per task: the result its future holds
    finished,     \* as_completed: the futures that were done when it was
                  \* called and are not yet yielded
    arrived,      \* as_completed: the futures done since, in the order they
                  \* completed, not yet yielded
    yielded,      \* the tasks as_completed has yielded
    results,      \* the list results
    failed,       \* the list failed (indices of the input records)
    sleep_s,      \* per task: the backoff sleep in progress, a fraction
                  \* [num, den] of seconds (0 when the task is not sleeping)
    completed,    \* the tasks whose future is done, in the order they were
                  \* set done (Future.set_result, Future.set_exception),
                  \* with a 0 where as_completed was called
    \* SkillsFetcher.parse_leaderboard
    html_content,      \* the rendered text of the page, a sequence of segments
    fetch_pc,          \* "idle" | "start" | "scanning" | "sorting"
                       \* | "returned" | "raised"
    leaderboard_start, \* the segment the scan is anchored at (-1: none)
    pattern_i,         \* the loop variable i of the pattern loop
    skills_dict,       \* name -> entry
    skills,            \* the list returned
    \* SkillsFetcher._parse_installs
    installs_str,      \* the token, a sequence of characters
    installs,          \* what the call ended in: [exc, value]
    \* DetailFetcher.fetch_top20_details
    top_skills,        \* the argument skills
    detail_pc,         \* "idle" | "loop" | "returned"
    detail_i,          \* the skills fetched so far
    detail_results,    \* the list results
    \* DetailFetcher._extract_when_to_use
    soup,              \* the parsed page, a sequence of blocks
    when_pc,           \* "idle" | "start" | "section" | "returned"
    section,           \* what _extract_section_text returned (line 235)
    when_to_use,       \* the text returned
    \* SkillsFetcher._fetch_async
    load_pc,           \* "idle" | "loading" | "parsing" | "sleeping"
                       \* | "returned" | "raised" | "exhausted" (line 121)
    load_attempt,      \* the loop variable attempt
    load_log,          \* how the attempts made so far ended: "" for a list
                       \* returned, else the exception
    load_waits,        \* the sleeps of retry_delay made so far, in seconds
    load_exc,          \* the exception that left the call ("" none)
    load_result        \* the list returned

\* What a call starts with and never changes
config == << details, max_retries, max_workers >>

\* The state of as_completed
waiter == << finished, arrived, yielded >>

\* The state of the summarizer
summarizer == << config, mainpc, pc, attempt, posts, resp,
                 last_exc, future, waiter, results, failed, sleep_s,
                 completed >>

\* The state of the leaderboard parser, of the installs parser and of the
\* detail stage
fetcher  == << html_content, fetch_pc, leaderboard_start, pattern_i,
               skills_dict, skills >>
parser   == << installs_str, installs >>
detailer == << top_skills, detail_pc, detail_i, detail_results >>

extractor == << soup, when_pc, section, when_to_use >>

loader == << load_pc, load_attempt, load_log, load_waits, load_exc,
             load_result >>

\* The stages modelled further below
rest == << extractor, loader >>

\* The stages that run before the summarizer
stages == << fetcher, parser, detailer, rest >>

vars == << summarizer, stages >>

Items == 1 .. Len(details)

\* A stage that is not called
FetcherIdle ==
    /\ html_content = << >>
    /\ fetch_pc = "idle"
    /\ leaderboard_start = -1
    /\ pattern_i = 0
    /\ skills_dict = << >>
    /\ skills = << >>

ParserIdle ==
    /\ installs_str = << >>
    /\ installs = [exc |-> "idle", value |-> 0]

DetailerIdle ==
    /\ top_skills = << >>
    /\ detail_pc = "idle"
    /\ detail_i = 0
    /\ detail_results = << >>

ExtractorIdle ==
    /\ soup = << >>
    /\ when_pc = "idle"
    /\ section = ""
    /\ when_to_use = ""

LoaderIdle ==
    /\ load_pc = "idle"
    /\ load_attempt = 0
    /\ load_log = << >>
    /\ load_waits = << >>
    /\ load_exc = ""
    /\ load_result = << >>

RestIdle == ExtractorIdle /\ LoaderIdle

\* The workers that hold a task
Busy == Cardinality({ i \in Items : pc[i] \in {"in_flight", "retrying"} })

\* The outcomes the posts of task i range over: all of them for the task of a
\* batch of one, the core of them for the tasks of a larger batch.
OutcomesOf(i) == IF Len(details) = 1 THEN Outcomes ELSE CoreOutcomes

Init ==
    /\ \E n \in 0 .. NumItems : details = [i \in 1 .. n |-> DetailName(i)]
    /\ max_retries \in -1 .. MaxRetries
    /\ max_workers \in 1 .. MaxWorkers
    /\ mainpc = "start"
    /\ pc = [i \in Items |-> "pending"]
    /\ attempt = [i \in Items |-> 0]
    /\ posts = [i \in Items |-> 0]
    /\ resp = [i \in Items |-> NoResp]
    /\ last_exc = [i \in Items |-> ""]
    /\ future = [i \in Items |-> NoResult]
    /\ finished = {}
    /\ arrived = << >>
    /\ yielded = {}
    /\ results = << >>
    /\ failed = << >>
    /\ sleep_s = [i \in Items |-> NoSleep]
    /\ completed = << >>
    /\ FetcherIdle
    /\ ParserIdle
    /\ DetailerIdle
    /\ RestIdle

\* Lines 160-172: an empty batch returns [] at once; otherwise every record is
\* submitted to the executor, in input order.
Submit ==
    /\ mainpc = "start"
    /\ mainpc' = IF details = << >> THEN "returned" ELSE "submitted"
    /\ UNCHANGED << config, stages, completed, sleep_s, pc, attempt, posts, resp,
                    last_exc, future, waiter, results, failed >>

\* Line 174: as_completed is called.  The futures done by now are yielded
\* first, in no particular order; the others as they complete.
AsCompleted ==
    /\ mainpc = "submitted"
    /\ mainpc' = "collecting"
    /\ finished' = { i \in Items : pc[i] \in {"succeeded", "failed"} }
    /\ completed' = Append(completed, 0)
    /\ UNCHANGED << config, stages, sleep_s, pc, attempt, posts, resp,
                    last_exc, future, arrived, yielded, results, failed >>

\* Task i is done: its future notifies the waiter of as_completed, if any.
Notify(i) ==
    /\ arrived' = IF mainpc = "collecting" /\ pc'[i] \in {"succeeded", "failed"}
                  THEN Append(arrived, i) ELSE arrived
    /\ completed' = IF pc'[i] \in {"succeeded", "failed"}
                    THEN Append(completed, i) ELSE completed
    /\ UNCHANGED << finished, yielded >>

\* A slip in line 320: the loop body runs once before max_retries is looked at.
Start_postsAnyway(i) ==
    /\ mainpc \in {"submitted", "collecting"}
    /\ pc[i] = "pending"
    /\ \A j \in Items : j < i => pc[j] # "pending"
    /\ Busy < max_workers
    /\ pc' = [pc EXCEPT ![i] = "in_flight"]
    /\ attempt' = [attempt EXCEPT ![i] = 1]
    /\ posts' = [posts EXCEPT ![i] = @ + 1]
    /\ UNCHANGED << last_exc, arrived, finished, yielded, completed >>
    /\ UNCHANGED << config, stages, sleep_s, mainpc, resp, future, results,
                    failed >>

\* A worker takes the oldest queued task: _analyze_single_skill builds the
\* prompt and _chat_completions enters its loop (lines 318-328): the first
\* post, or with no attempt to make the raise of line 377.
Start(i) ==
    /\ mainpc \in {"submitted", "collecting"}
    /\ pc[i] = "pending"
    /\ \A j \in Items : j < i => pc[j] # "pending"
    /\ Busy < max_workers
    /\ IF 1 <= max_retries
       THEN /\ pc' = [pc EXCEPT ![i] = "in_flight"]
            /\ attempt' = [attempt EXCEPT ![i] = 1]
            /\ posts' = [posts EXCEPT ![i] = @ + 1]
            /\ UNCHANGED last_exc
       ELSE /\ pc' = [pc EXCEPT ![i] = "failed"]
            /\ last_exc' = [last_exc EXCEPT ![i] = "RuntimeError"]
            /\ UNCHANGED << attempt, posts >>
    /\ Notify(i)
    /\ UNCHANGED << config, stages, sleep_s, mainpc, resp, future, results,
                    failed >>

\* Lines 329-377 and 202: the post of task i ends in o.  Content returned
\* goes through _parse_single_response; an exception either breaks the loop
\* (line 370) and is raised out of the task, or is followed by the backoff
\* sleep.
Respond(i, o) ==
    LET exc    == AttemptExc(o)
        parsed == _parse_single_response(o.content, details[i])
    IN
    /\ pc[i] = "in_flight"
    /\ resp' = [resp EXCEPT ![i] = o]
    /\ IF exc = ""
       THEN /\ last_exc' = [last_exc EXCEPT ![i] = parsed.exc]
            /\ pc' = [pc EXCEPT ![i] =
                        IF parsed.exc = "" THEN "succeeded" ELSE "failed"]
            /\ future' = [future EXCEPT ![i] = parsed.result]
            /\ UNCHANGED sleep_s
       ELSE /\ last_exc' = [last_exc EXCEPT ![i] = exc]
            /\ pc' = [pc EXCEPT ![i] =
                        IF attempt[i] >= max_retries
                           \/ ~_should_retry(exc, StatusCode(o))
                        THEN "failed" ELSE "retrying"]
            /\ IF attempt[i] >= max_retries
                  \/ ~_should_retry(exc, StatusCode(o))
               THEN UNCHANGED sleep_s
               ELSE \E r \in Random :
                       sleep_s' = [sleep_s EXCEPT ![i] = Backoff(attempt[i], r)]
            /\ UNCHANGED future
    /\ Notify(i)
    /\ UNCHANGED << config, stages, mainpc, attempt, posts, results, failed >>

\* A slip in line 320: the loop starts over after the sleep instead of going on
\* to the next attempt.
Wake_startsOver(i) ==
    /\ pc[i] = "retrying"
    /\ pc' = [pc EXCEPT ![i] = "in_flight"]
    /\ attempt' = [attempt EXCEPT ![i] = 1]
    /\ posts' = [posts EXCEPT ![i] = @ + 1]
    /\ resp' = [resp EXCEPT ![i] = NoResp]
    /\ sleep_s' = [sleep_s EXCEPT ![i] = NoSleep]
    /\ UNCHANGED << config, stages, completed, mainpc, last_exc, future, waiter,
                    results, failed >>

\* Lines 375, 320-328: the sleep ends and the next attempt posts.
Wake(i) ==
    /\ pc[i] = "retrying"
    /\ pc' = [pc EXCEPT ![i] = "in_flight"]
    /\ attempt' = [attempt EXCEPT ![i] = @ + 1]
    /\ posts' = [posts EXCEPT ![i] = @ + 1]
    /\ resp' = [resp EXCEPT ![i] = NoResp]
    /\ sleep_s' = [sleep_s EXCEPT ![i] = NoSleep]
    /\ UNCHANGED << config, stages, completed, mainpc, last_exc, future, waiter,
                    results, failed >>

\* A slip in lines 180-182: the except branch does not record the record.
Collect_dropsFailed(i) ==
    /\ mainpc = "collecting"
    /\ IF finished # {}
       THEN i \in finished /\ finished' = finished \ {i} /\ UNCHANGED arrived
       ELSE /\ arrived # << >> /\ i = Head(arrived)
            /\ arrived' = Tail(arrived) /\ UNCHANGED finished
    /\ yielded' = yielded \cup {i}
    /\ IF pc[i] = "succeeded"
       THEN /\ results' = Append(results, future[i])
            /\ UNCHANGED failed
       ELSE UNCHANGED << results, failed >>
    /\ UNCHANGED << config, stages, completed, sleep_s, mainpc, pc, attempt,
                    posts, resp, last_exc, future >>

\* Lines 174-182: as_completed yields a future, one of those that were done
\* when it was called or else the one that completed first since; its result
\* is appended to results, or its record to failed when the task raised.
Collect(i) ==
    /\ mainpc = "collecting"
    /\ IF finished # {}
       THEN i \in finished /\ finished' = finished \ {i} /\ UNCHANGED arrived
       ELSE /\ arrived # << >> /\ i = Head(arrived)
            /\ arrived' = Tail(arrived) /\ UNCHANGED finished
    /\ yielded' = yielded \cup {i}
    /\ IF pc[i] = "succeeded"
       THEN /\ results' = Append(results, future[i])
            /\ UNCHANGED failed
       ELSE /\ failed' = Append(failed, i)
            /\ UNCHANGED results
    /\ UNCHANGED << config, stages, completed, sleep_s, mainpc, pc, attempt,
                    posts, resp, last_exc, future >>

\* A slip in lines 184-186: one failure degrades the whole batch to fallbacks.
Return_fallbackForAll ==
    /\ mainpc = "collecting"
    /\ yielded = Items
    /\ results' = IF failed = << >> THEN results
                  ELSE [k \in 1 .. Len(details) |-> _fallback_single(details[k])]
    /\ mainpc' = "returned"
    /\ UNCHANGED << config, stages, completed, sleep_s, pc, attempt, posts, resp,
                    last_exc, future, waiter, failed >>

\* A slip in lines 184-186: the failed records are left out.
Return_withoutFallbacks ==
    /\ mainpc = "collecting"
    /\ yielded = Items
    /\ mainpc' = "returned"
    /\ UNCHANGED << config, stages, completed, sleep_s, pc, attempt, posts, resp,
                    last_exc, future, waiter, results, failed >>

\* A slip in lines 184-186: the fallback results are put before the others.
Return_fallbacksFirst ==
    /\ mainpc = "collecting"
    /\ yielded = Items
    /\ results' = [k \in 1 .. Len(failed) |->
                      _fallback_single(details[failed[k]])] \o results
    /\ mainpc' = "returned"
    /\ UNCHANGED << config, stages, completed, sleep_s, pc, attempt, posts,
                    resp, last_exc, future, waiter, failed >>

\* Lines 184-189: every future was yielded and the executor has shut down;
\* the failed records are turned into fallback results and the list returned.
Return ==
    /\ mainpc = "collecting"
    /\ yielded = Items
    /\ results' = results \o [k \in 1 .. Len(failed) |->
                                 _fallback_single(details[failed[k]])]
    /\ mainpc' = "returned"
    /\ UNCHANGED << config, stages, completed, sleep_s, pc, attempt, posts, resp,
                    last_exc, future, waiter, failed >>

Next ==
    \/ Submit
    \/ AsCompleted
    \/ \E i \in Items : Start(i)
    \/ \E i \in Items : \E o \in OutcomesOf(i) : Respond(i, o)
    \/ \E i \in Items : Wake(i)
    \/ \E i \in Items : Collect(i)
    \/ Return

Spec == Init /\ [][Next]_vars

\* The retry loop of one record followed through many attempts: a summarizer
\* with a large max_retries given a batch of one.
InitBackoff ==
    /\ details = << DetailName(1) >>
    /\ max_retries \in 1 .. MaxAttempts
    /\ max_workers = 1
    /\ mainpc = "start"
    /\ pc = [i \in Items |-> "pending"]
    /\ attempt = [i \in Items |-> 0]
    /\ posts = [i \in Items |-> 0]
    /\ resp = [i \in Items |-> NoResp]
    /\ last_exc = [i \in Items |-> ""]
    /\ future = [i \in Items |-> NoResult]
    /\ finished = {}
    /\ arrived = << >>
    /\ yielded = {}
    /\ results = << >>
    /\ failed = << >>
    /\ sleep_s = [i \in Items |-> NoSleep]
    /\ completed = << >>
    /\ FetcherIdle
    /\ ParserIdle
    /\ DetailerIdle
    /\ RestIdle

SpecBackoff == InitBackoff /\ [][Next]_vars

\* A summarizer that is not called
SummarizerIdle ==
    /\ details = << >>
    /\ max_retries = 0
    /\ max_workers = 1
    /\ mainpc = "idle"
    /\ pc = << >>
    /\ attempt = << >>
    /\ posts = << >>
    /\ resp = << >>
    /\ last_exc = << >>
    /\ future = << >>
    /\ finished = {}
    /\ arrived = << >>
    /\ yielded = {}
    /\ results = << >>
    /\ failed = << >>
    /\ sleep_s = << >>
    /\ completed = << >>

\* ------------------------------------- SkillsFetcher._parse_installs
\* (src/src/skills_fetcher.py, lines 205-221)

\* The characters of an installs token: three digits, the dot, the suffix in
\* both cases, a sign, a blank, a letter, and the word "inf" as one piece.
TokenChars == {"0", "3", "7", ".", "K", "k", "-", " ", "x", "inf"}

Digits == {"0", "3", "7"}

DigitValue(c) == CASE c = "0" -> 0 [] c = "3" -> 3 [] c = "7" -> 7

\* The tokens of at most MaxTokenLen characters
Tokens == UNION { [1 .. n -> TokenChars] : n \in 0 .. MaxTokenLen }

RECURSIVE LStrip(_)
\* s.lstrip()
LStrip(s) == IF s # << >> /\ Head(s) = " " THEN LStrip(Tail(s)) ELSE s

RECURSIVE RStrip(_)
\* s.rstrip()
RStrip(s) ==
    IF s # << >> /\ s[Len(s)] = " " THEN RStrip(SubSeq(s, 1, Len(s) - 1)) ELSE s

\* s.strip()
Strip(s) == RStrip(LStrip(s))

\* s.upper()
Upper(s) ==
    [ j \in 1 .. Len(s) |->
        CASE s[j] = "k"   -> "K"
          [] s[j] = "x"   -> "X"
          [] s[j] = "inf" -> "INF"
          [] OTHER        -> s[j] ]

\* s.replace(c, "")
Without(s, c) == SelectSeq(s, LAMBDA x : x # c)

RECURSIVE DigitsValue(_)
\* The number a sequence of digits writes
DigitsValue(ds) ==
    IF ds = << >> THEN 0
    ELSE 10 * DigitsValue(SubSeq(ds, 1, Len(ds) - 1)) + DigitValue(ds[Len(ds)])

\* The sign of a numeric literal and what follows it
Unsigned(u) == IF u # << >> /\ Head(u) = "-" THEN Tail(u) ELSE u
Negative(u) == u # << >> /\ Head(u) = "-"

\* int(s): [exc, value].  Blanks around, an optional sign, digits.
IntOf(s) ==
    LET u == Strip(s)
        d == Unsigned(u)
    IN  IF d # << >> /\ \A j \in 1 .. Len(d) : d[j] \in Digits
        THEN [exc |-> "",
              value |-> IF Negative(u) THEN 0 - DigitsValue(d) ELSE DigitsValue(d)]
        ELSE [exc |-> "ValueError", value |-> 0]

\* float(s): [exc, inf, neg, digits, frac]: blanks around, an optional sign,
\* then "inf", or digits with at most one dot and at least one digit; the
\* number is digits / 10^frac.
FloatOf(s) ==
    LET u    == Strip(s)
        d    == Unsigned(u)
        dots == { j \in 1 .. Len(d) : d[j] = "." }
        bad  == [exc |-> "ValueError", inf |-> FALSE, neg |-> FALSE,
                 digits |-> << >>, frac |-> 0]
    IN  IF d = << "INF" >>
        THEN [exc |-> "", inf |-> TRUE, neg |-> Negative(u),
              digits |-> << >>, frac |-> 0]
        ELSE IF /\ \A j \in 1 .. Len(d) : d[j] \in Digits \cup {"."}
                /\ Cardinality(dots) <= 1
                /\ \E j \in 1 .. Len(d) : d[j] \in Digits
             THEN [exc |-> "", inf |-> FALSE, neg |-> Negative(u),
                   digits |-> Without(d, "."),
                   frac |-> IF dots = {} THEN 0
                            ELSE Len(d) - (CHOOSE j \in dots : TRUE)]
             ELSE bad

\* int(f * 1000): the product cut to its integer part; OverflowError for an
\* infinity.
TimesThousand(f) ==
    IF f.inf THEN [exc |-> "OverflowError", value |-> 0]
    ELSE LET v == (DigitsValue(f.digits) * 1000) \div Pow(10, f.frac)
         IN  [exc |-> "", value |-> IF f.neg THEN 0 - v ELSE v]

\* Lines 218-221: int(installs_str), 0 on ValueError
PlainInstalls(s) ==
    IF IntOf(s).exc = "" THEN IntOf(s) ELSE [exc |-> "", value |-> 0]

\* _parse_installs(installs_str): [exc, value]; exc is "" when value is
\* returned and the class of the exception that leaves the call otherwise.
_parse_installs(token) ==
    IF token = << >> THEN [exc |-> "", value |-> 0]
    ELSE LET s == Upper(Strip(token)) IN
         IF \E j \in 1 .. Len(s) : s[j] = "K"
         THEN LET f == FloatOf(Without(s, "K")) IN
              IF f.exc = "ValueError" THEN [exc |-> "", value |-> 0]
              ELSE TimesThousand(f)
         ELSE PlainInstalls(s)

InitInstalls ==
    /\ installs_str \in Tokens
    /\ installs = [exc |-> "pending", value |-> 0]
    /\ SummarizerIdle
    /\ RestIdle
    /\ FetcherIdle
    /\ DetailerIdle

\* The call _parse_installs(installs_str)
ParseInstalls ==
    /\ installs.exc = "pending"
    /\ installs' = _parse_installs(installs_str)
    /\ UNCHANGED << installs_str, summarizer, rest, fetcher, detailer >>

NextInstalls == ParseInstalls

SpecInstalls == InitInstalls /\ [][NextInstalls]_vars

\* ------------------------------------- SkillsFetcher.parse_leaderboard
\* (src/src/skills_fetcher.py, lines 123-203)

\* sorted(...)[:20]
TopN == 20

\* The rendered text is a sequence of segments:
\*   a marker   a line with the text `text`
\*   a record   rank, name, owner and installs token, laid out as
\*              "lines"  (rank, name, owner, installs on four lines),
\*              "hashed" (the same with "### " before the name), or
\*              "inline" (the four on one line, blanks between)
\*   junk       a line of prose
\* A name is its spelling <<prefix, number>>: "skill-7" is lower case,
\* "Skill_7" is not.
Seg(kind, text, layout, rank, name, owner, token) ==
    [ kind |-> kind, text |-> text, layout |-> layout, rank |-> rank,
      name |-> name, owner |-> owner, installs |-> token ]

MarkerSeg(text) == Seg("marker", text, "", 0, << >>, "", << >>)
JunkSeg == Seg("junk", "", "", 0, << >>, "", << >>)
RecordSeg(layout, rank, name, owner, token) ==
    Seg("record", "", layout, rank, name, owner, token)

\* Line 139: the markers, in the order they are looked for
Markers ==
    << "SKILLS LEADERBOARD", "Skills Leaderboard", "LEADERBOARD", "Leaderboard" >>

\* A slip in line 140: the marker is looked for whatever its case.
Occurs_anyCase(marker, seg) == seg.kind = "marker"

\* marker is a substring of the segment
Occurs(marker, seg) ==
    /\ seg.kind = "marker"
    /\ \/ seg.text = marker
       \/ seg.text = "SKILLS LEADERBOARD" /\ marker = "LEADERBOARD"
       \/ seg.text = "Skills Leaderboard" /\ marker = "Leaderboard"

\* Line 140: html_content.find(marker), the first segment holding it or -1
Find(text, marker) ==
    LET at == { j \in 1 .. Len(text) : Occurs(marker, text[j]) }
    IN  IF at = {} THEN -1 ELSE CHOOSE j \in at : \A k \in at : j <= k

\* A slip in lines 139-143: the scan is anchored at the earliest occurrence of
\* any of the markers.
MarkerLoop_earliest(text, m) ==
    LET at == { j \in 1 .. Len(text) :
                  \E k \in 1 .. Len(Markers) : Occurs(Markers[k], text[j]) }
    IN  IF at = {} THEN -1 ELSE CHOOSE j \in at : \A k \in at : j <= k

RECURSIVE MarkerLoop(_, _)
\* Lines 139-143: leaderboard_start when the loop over the markers ends,
\* entered at marker m
MarkerLoop(text, m) ==
    IF Find(text, Markers[m]) # -1 \/ m = Len(Markers)
    THEN Find(text, Markers[m])
    ELSE MarkerLoop(text, m + 1)

\* Line 152: html_content[leaderboard_start:]
ContentFrom(text, start) == SubSeq(text, start, Len(text))

\* Group 4, ([\d.]+K?): the longest run of digits and dots a token starts
\* with, and the K that follows it if there is one
Captured(token) ==
    LET run == { j \in 0 .. Len(token) :
                   \A k \in 1 .. j : token[k] \in Digits \cup {"."} }
        p   == CHOOSE j \in run : \A k \in run : k <= j
    IN  IF p < Len(token) /\ p > 0 /\ token[p + 1] = "K"
        THEN SubSeq(token, 1, p + 1)
        ELSE SubSeq(token, 1, p)

\* The character class of a name
LowerCase(name) == name[1] = "skill-"

\* Lines 161-170: whether pattern p (1 to 4) matches the record
PatternMatches(p, seg) ==
    /\ seg.kind = "record"
    /\ Captured(seg.installs) # << >>
    /\ CASE p = 1 -> seg.layout = "lines" /\ LowerCase(seg.name)
         [] p = 2 -> seg.layout = "lines"
         [] p = 3 -> seg.layout = "hashed"
         [] p = 4 -> seg.layout \in {"lines", "inline"}

\* Line 175: re.finditer(pattern, content), the matches in text order
Matches(p, content) == SelectSeq(content, LAMBDA seg : PatternMatches(p, seg))

\* Lines 178-194: the entry made of a match
Entry(seg) ==
    [ rank     |-> seg.rank,
      name     |-> seg.name,
      owner    |-> seg.owner,
      installs |-> _parse_installs(Captured(seg.installs)).value,
      url      |-> << "base_url", seg.owner, seg.name >> ]

\* A slip in line 187: the first occurrence of a name is kept, whatever its
\* rank.
Upsert_keepsFirst(dict, entry) ==
    IF \E j \in 1 .. Len(dict) : dict[j].name = entry.name
    THEN dict
    ELSE Append(dict, entry)

\* Lines 187-194: skills_dict[name] = entry when the name is new or its entry
\* has a greater rank.  The dict is the sequence of its values in insertion
\* order; a replaced value keeps its place.
Upsert(dict, entry) ==
    IF \E j \in 1 .. Len(dict) : dict[j].name = entry.name
    THEN LET j == CHOOSE j \in 1 .. Len(dict) : dict[j].name = entry.name
         IN  IF dict[j].rank > entry.rank
             THEN [dict EXCEPT ![j] = entry]
             ELSE dict
    ELSE Append(dict, entry)

RECURSIVE UpsertAll(_, _)
\* Lines 177-194: the loop over the matches
UpsertAll(dict, matches) ==
    IF matches = << >> THEN dict
    ELSE UpsertAll(Upsert(dict, Entry(Head(matches))), Tail(matches))

\* The place of x in a list sorted by rank: after the entries whose rank is
\* not greater
InsertByRank(sorted, x) ==
    LET k == Cardinality({ j \in 1 .. Len(sorted) : sorted[j].rank <= x.rank })
    IN  SubSeq(sorted, 1, k) \o << x >> \o SubSeq(sorted, k + 1, Len(sorted))

RECURSIVE InsertionSort(_)
InsertionSort(values) ==
    IF values = << >> THEN << >>
    ELSE InsertByRank(InsertionSort(SubSeq(values, 1, Len(values) - 1)),
                      values[Len(values)])

\* A slip in line 201: the values are left in the order of the dict.
SortedByRank_asInserted(values) == values

\* Line 201: sorted(values, key=rank), a stable sort
SortedByRank(values) == InsertionSort(values)

\* Line 201: a[:n]
FirstN(a, n) == SubSeq(a, 1, IF Len(a) < n THEN Len(a) ELSE n)

\* The pages parse_leaderboard is given.
SkillName(style, j) == << style, j >>

\* The formats of a board, one for each pattern to be the first that matches
BoardFormats ==
    { << "lines", "skill-" >>, << "lines", "Skill_" >>,
      << "hashed", "skill-" >>, << "inline", "skill-" >> }

\* The board of n records in format f; order "asc" ranks them 1 to n down
\* the page, "desc" n to 1.
Board(n, order, f) ==
    [ j \in 1 .. n |->
        RecordSeg(f[1], IF order = "asc" THEN j ELSE n + 1 - j,
                  SkillName(f[2], j), "owner/repo",
                  IF j % 2 = 1 THEN << "7", ".", "0", "K" >>
                               ELSE << "3", "0", "0" >>) ]

\* What a page may carry besides its board: a repeat of the first skill
\* under another rank, owner and installs token, a record in another layout
\* or spelling, a second marker, prose.
ExtraSegs ==
    { RecordSeg(f[1], r, SkillName(f[2], 1), "other/fork", << "3", "7", "k" >>) :
        f \in BoardFormats, r \in {1, 40} }
    \cup { MarkerSeg("SKILLS LEADERBOARD"), MarkerSeg("Leaderboard"), JunkSeg }

Extras == UNION { [1 .. n -> ExtraSegs] : n \in 0 .. MaxExtras }

\* The markers of a page: none, the four that are looked for, and a spelling
\* that is not
PageMarkers ==
    { "", "leaderboard", "SKILLS LEADERBOARD", "Skills Leaderboard",
      "LEADERBOARD", "Leaderboard" }

\* A page: the extras before the marker, between marker and board, or after
\* the board
Page(marker, board, extras, place) ==
    LET head == IF marker = "" THEN << >> ELSE << MarkerSeg(marker) >>
    IN  CASE place = "before_marker" -> extras \o head \o board
          [] place = "before_board"  -> head \o extras \o board
          [] place = "after_board"   -> head \o board \o extras

Places == {"before_marker", "before_board", "after_board"}

\* The short boards stand in rank order, with every marker and in every
\* format; the long ones in both orders.
Pages ==
    { Page(m, Board(n, "asc", f), x, pl) :
        m \in PageMarkers, n \in 0 .. SmallBoard,
        f \in BoardFormats, x \in Extras, pl \in Places }
    \cup
    { Page("LEADERBOARD", Board(n, o, << "lines", "skill-" >>), x, pl) :
        n \in SmallBoard + 1 .. MaxRecords, o \in {"asc", "desc"},
        x \in Extras, pl \in Places }

InitFetch ==
    /\ html_content \in Pages
    /\ fetch_pc = "start"
    /\ leaderboard_start = -1
    /\ pattern_i = 0
    /\ skills_dict = << >>
    /\ skills = << >>
    /\ SummarizerIdle
    /\ RestIdle
    /\ ParserIdle
    /\ DetailerIdle

\* Lines 139-152: the loop over the markers; without a marker the call
\* raises, with one the scan is anchored at it.
FindMarker ==
    /\ fetch_pc = "start"
    /\ leaderboard_start' = MarkerLoop(html_content, 1)
    /\ IF leaderboard_start' = -1
       THEN fetch_pc' = "raised" /\ UNCHANGED pattern_i
       ELSE fetch_pc' = "scanning" /\ pattern_i' = 1
    /\ UNCHANGED << html_content, skills_dict, skills,
                    summarizer, rest, parser, detailer >>

\* A slip in lines 196-198: no break, every pattern adds its matches.
TryPattern_mergesAll ==
    /\ fetch_pc = "scanning"
    /\ skills_dict' =
          UpsertAll(skills_dict,
                    Matches(pattern_i,
                            ContentFrom(html_content, leaderboard_start)))
    /\ IF pattern_i = 4
       THEN fetch_pc' = "sorting" /\ UNCHANGED pattern_i
       ELSE pattern_i' = pattern_i + 1 /\ UNCHANGED fetch_pc
    /\ UNCHANGED << html_content, leaderboard_start, skills,
                    summarizer, rest, parser, detailer >>

\* Lines 174-198: one pass of the loop over the patterns: the matches of
\* pattern i go into skills_dict; the loop ends when the dict is not empty or
\* the patterns are used up.
TryPattern ==
    /\ fetch_pc = "scanning"
    /\ skills_dict' =
          UpsertAll(skills_dict,
                    Matches(pattern_i,
                            ContentFrom(html_content, leaderboard_start)))
    /\ IF skills_dict' # << >> \/ pattern_i = 4
       THEN fetch_pc' = "sorting" /\ UNCHANGED pattern_i
       ELSE pattern_i' = pattern_i + 1 /\ UNCHANGED fetch_pc
    /\ UNCHANGED << html_content, leaderboard_start, skills,
                    summarizer, rest, parser, detailer >>

\* Lines 201-203: the values sorted by rank, the first 20 of them returned
SortAndReturn ==
    /\ fetch_pc = "sorting"
    /\ skills' = FirstN(SortedByRank(skills_dict), TopN)
    /\ fetch_pc' = "returned"
    /\ UNCHANGED << html_content, leaderboard_start, pattern_i, skills_dict,
                    summarizer, rest, parser, detailer >>

NextFetch == FindMarker \/ TryPattern \/ SortAndReturn

SpecFetch == InitFetch /\ [][NextFetch]_vars

\* ------------------------------------- SkillsFetcher._fetch_async
\* (src/src/skills_fetcher.py, lines 43-121)

\* max_retries and retry_delay of _fetch_async (lines 45-46)
fetch_max_retries == 3
retry_delay == 5

\* Line 98: the text holds "Skills Leaderboard" or "Leaderboard"
HasTitle(text) ==
    \E j \in 1 .. Len(text) :
        Occurs("Skills Leaderboard", text[j]) \/ Occurs("Leaderboard", text[j])

\* The texts document.body.innerText may be: no marker, a spelling that is
\* none, markers with and without the title of line 98; boards of no record
\* and of some, in a layout the first pattern matches and in one only the
\* fourth does.
LoadPages ==
    { Page(m, Board(n, "asc", f), << >>, "before_board") :
        m \in {"", "leaderboard", "LEADERBOARD", "Skills Leaderboard"},
        n \in 0 .. SmallBoard,
        f \in { << "lines", "skill-" >>, << "inline", "skill-" >> } }

\* A slip in line 116: the wait follows every failed attempt.
Retries_afterEveryAttempt(a) == TRUE

\* Line 116: attempt < max_retries - 1
Retries(a) == a < fetch_max_retries - 1

InitLoad ==
    /\ load_pc = "loading"
    /\ load_attempt = 0
    /\ load_log = << >>
    /\ load_waits = << >>
    /\ load_exc = ""
    /\ load_result = << >>
    /\ FetcherIdle
    /\ ExtractorIdle
    /\ SummarizerIdle
    /\ ParserIdle
    /\ DetailerIdle

\* Lines 114-119: the except branch on exception e: the wait and the next
\* attempt, or the exception raised again
Except(e) ==
    /\ load_log' = Append(load_log, e)
    /\ IF Retries(load_attempt)
       THEN load_pc' = "sleeping" /\ UNCHANGED load_exc
       ELSE load_pc' = "raised" /\ load_exc' = e
    /\ UNCHANGED << load_attempt, load_waits, load_result >>

\* Lines 50-106: the browser loads the page and its text is read; a text
\* without the title is read once more 10 seconds later (c2); the text goes
\* to parse_leaderboard.
LoadPage(c1, c2) ==
    /\ load_pc = "loading"
    /\ html_content' = IF HasTitle(c1) THEN c1 ELSE c2
    /\ fetch_pc' = "start"
    /\ leaderboard_start' = -1
    /\ pattern_i' = 0
    /\ skills_dict' = << >>
    /\ skills' = << >>
    /\ load_pc' = "parsing"
    /\ UNCHANGED << load_attempt, load_log, load_waits, load_exc, load_result,
                    extractor, summarizer, parser, detailer >>

\* Lines 50-103: the browser raises (launch, goto, evaluate)
LoadRaises ==
    /\ load_pc = "loading"
    /\ Except("PlaywrightError")
    /\ UNCHANGED << fetcher, extractor, summarizer, parser, detailer >>

\* Lines 106-112: parse_leaderboard has ended: a list that is not empty is
\* returned; an empty one raises (line 112), as the missing marker has.
ParseEnds ==
    /\ load_pc = "parsing"
    /\ fetch_pc \in {"returned", "raised"}
    /\ IF fetch_pc = "returned" /\ skills # << >>
       THEN /\ load_pc' = "returned"
            /\ load_result' = skills
            /\ load_log' = Append(load_log, "")
            /\ UNCHANGED << load_attempt, load_waits, load_exc >>
       ELSE Except(IF fetch_pc = "raised" THEN "NoMarker" ELSE "NoSkills")
    /\ UNCHANGED << fetcher, extractor, summarizer, parser, detailer >>

\* Lines 117 and 48: the wait is over and the loop goes on, to the next
\* attempt or, the attempts used up, to line 121.
RetrySleep ==
    /\ load_pc = "sleeping"
    /\ load_waits' = Append(load_waits, retry_delay)
    /\ load_attempt' = load_attempt + 1
    /\ IF load_attempt + 1 < fetch_max_retries
       THEN load_pc' = "loading" /\ UNCHANGED load_exc
       ELSE load_pc' = "exhausted" /\ load_exc' = "MaxRetries"
    /\ UNCHANGED << load_log, load_result, fetcher, extractor, summarizer,
                    parser, detailer >>

NextLoad ==
    \/ \E c1, c2 \in LoadPages : LoadPage(c1, c2)
    \/ LoadRaises
    \/ FindMarker
    \/ TryPattern
    \/ SortAndReturn
    \/ ParseEnds
    \/ RetrySleep

SpecLoad == InitLoad /\ [][NextLoad]_vars

\* ------------------------------------- DetailFetcher.fetch_top20_details
\* (src/src/detail_fetcher.py, lines 32-164 and 254-307)

\* min(20, len(skills))
DetailTopN == 20

\* A detail page, by what _extract_rules reads of it:
\*   lists   the lists of the page in document order, each with its tag
\*           ("ul" | "ol"), whether its class holds "rules" or "list", and
\*           its direct li items: the file a link of the item leads to, or
\*           "" for an item without a link
\*   md      the files named by "rules/<file>.md" anywhere in the HTML
\*   when    the text _extract_when_to_use finds
HtmlList(tag, class, items) == [tag |-> tag, class |-> class, items |-> items]

HtmlPage(lists, md, when) == [lists |-> lists, md |-> md, when |-> when]

\* The rule of a list item with a link (lines 282-292) and of a regex match
\* (lines 298-305)
LinkRule(file) == [file |-> file, desc |-> << "desc of ", file >>]
MdRule(file)   == [file |-> << file, ".md" >>, desc |-> << "Rule: ", file >>]

\* Lines 268-276: soup.select(selector), selectors numbered 1 to 4
Selected(page, selector) ==
    SelectSeq(page.lists,
              LAMBDA l : CASE selector = 1 -> l.tag = "ul"
                           [] selector = 2 -> l.tag = "ol"
                           [] selector = 3 -> l.class = "rules"
                           [] selector = 4 -> l.class = "list")

\* Lines 279-292: the rules of the items of a list that carry a link; a list
\* of fewer than 3 items gives none.
ListRules(l) ==
    IF Len(l.items) >= 3
    THEN LET linked == SelectSeq(l.items, LAMBDA f : f # "")
         IN  [ j \in 1 .. Len(linked) |-> LinkRule(linked[j]) ]
    ELSE << >>

\* The lists the two loops of lines 275-278 visit, in the order they do
Visited(page) ==
    Selected(page, 1) \o Selected(page, 2) \o Selected(page, 3)
        \o Selected(page, 4)

\* _extract_rules(soup): the rules of the first list visited that gives any,
\* else those the regex finds
_extract_rules(page) ==
    LET lists == Visited(page)
        hits  == { j \in 1 .. Len(lists) : ListRules(lists[j]) # << >> }
    IN  IF hits # {}
        THEN ListRules(lists[CHOOSE j \in hits : \A k \in hits : j <= k])
        ELSE [ j \in 1 .. Len(page.md) |-> MdRule(page.md[j]) ]

\* A detail record.  error is "" in a record without that key.
DetailRecord(name, owner, url, when, rules, count, error) ==
    [ name |-> name, owner |-> owner, url |-> url, when_to_use |-> when,
      rules |-> rules, rules_count |-> count, error |-> error ]

\* A slip in line 163: the items of the page's lists are counted.
parse_detail_page_countsItems(page, url, skill_info) ==
    DetailRecord(skill_info.name, skill_info.owner, url, page.when,
                 _extract_rules(page),
                 IF page.lists = << >> THEN Len(page.md)
                 ELSE Len(page.lists[1].items), "")

\* parse_detail_page(html_content, url, skill_info), lines 124-164
parse_detail_page(page, url, skill_info) ==
    DetailRecord(skill_info.name, skill_info.owner, url, page.when,
                 _extract_rules(page), Len(_extract_rules(page)), "")

\* Lines 76-84: the record kept for a skill whose page could not be had
FailedRecord(skill, url) ==
    DetailRecord(skill.name, skill.owner, url, << >>, << >>, 0,
                 "Failed to fetch details")

\* Lines 62-67: the url of a skill, built when the skill carries none
UrlOf(skill) ==
    IF skill.url = << >> THEN << "base_url", skill.owner, skill.name >>
    ELSE skill.url

\* The pages of the site
DetailPages ==
    << \* a list of rule links
       HtmlPage(<< HtmlList("ul", "", << "3d.md", "audio.md", "fonts.md" >>) >>,
                << "3d", "audio", "fonts" >>, << "Use this skill whenever" >>),
       \* a navigation list too short to count, then rule links in an ol
       HtmlPage(<< HtmlList("ul", "list", << "home", "docs" >>),
                   HtmlList("ol", "rules",
                            << "a.md", "", "b.md", "c.md" >>) >>,
                << >>, << >>),
       \* lists without links, rule files named in the text only
       HtmlPage(<< HtmlList("ul", "", << "", "", "" >>) >>,
                << "x", "y" >>, << "when" >>),
       \* nothing to extract
       HtmlPage(<< >>, << >>, << >>) >>

\* The page the site serves for the j-th skill
PageOf(j) == DetailPages[(j % Len(DetailPages)) + 1]

\* The j-th skill of a leaderboard; every third one carries no url.
TopSkill(j) ==
    [ name  |-> SkillName("skill-", j),
      owner |-> "owner/repo",
      url   |-> IF j % 3 = 0 THEN << >>
                ELSE << "base_url", "owner/repo", SkillName("skill-", j) >> ]

\* How the fetch of one page may end: the page is parsed, the request fails
\* (requests.RequestException: timeout, connection, HTTP status), anything
\* else is raised while the page is parsed
FetchOutcomes == {"page", "request_error", "parse_error"}

\* fetch_detail_page(url, skill_info): the record, or None as << >>
fetch_detail_page(j, url, skill_info, outcome) ==
    IF outcome = "page" THEN << parse_detail_page(PageOf(j), url, skill_info) >>
    ELSE << >>

\* The records standing for a failed fetch
Failures(records) ==
    Cardinality({ j \in 1 .. Len(records) : records[j].error # "" })

\* top_n, line 57
TopCount == IF Len(top_skills) < DetailTopN THEN Len(top_skills) ELSE DetailTopN

InitDetail ==
    /\ \E n \in 0 .. MaxSkills : top_skills = [ j \in 1 .. n |-> TopSkill(j) ]
    /\ detail_pc = "loop"
    /\ detail_i = 0
    /\ detail_results = << >>
    /\ SummarizerIdle
    /\ RestIdle
    /\ FetcherIdle
    /\ ParserIdle

\* A slip in lines 71-84: a skill whose page fails is left out.
FetchDetail_skipsFailed(outcome) ==
    LET j      == detail_i + 1
        skill  == top_skills[j]
        url    == UrlOf(skill)
        detail == fetch_detail_page(j, url, skill, outcome)
    IN  /\ detail_pc = "loop"
        /\ detail_i < TopCount
        /\ outcome # "page" => Failures(detail_results) < MaxFailures
        /\ detail_results' = detail_results \o detail
        /\ detail_i' = j
        /\ UNCHANGED << top_skills, detail_pc, summarizer, rest, fetcher, parser >>

\* Lines 61-88: one pass of the loop over skills[:top_n]: the page of the
\* next skill is fetched and parsed and its record appended, or the record
\* that stands for a failure.  (The sleep between two fetches changes
\* nothing.)
FetchDetail(outcome) ==
    LET j      == detail_i + 1
        skill  == top_skills[j]
        url    == UrlOf(skill)
        detail == fetch_detail_page(j, url, skill, outcome)
    IN  /\ detail_pc = "loop"
        /\ detail_i < TopCount
        /\ outcome # "page" => Failures(detail_results) < MaxFailures
        /\ detail_results' =
              IF detail # << >> THEN Append(detail_results, detail[1])
              ELSE Append(detail_results, FailedRecord(skill, url))
        /\ detail_i' = j
        /\ UNCHANGED << top_skills, detail_pc, summarizer, rest, fetcher, parser >>

\* Lines 90-91: the loop is over, results is returned
ReturnDetails ==
    /\ detail_pc = "loop"
    /\ detail_i = TopCount
    /\ detail_pc' = "returned"
    /\ UNCHANGED << top_skills, detail_i, detail_results,
                    summarizer, rest, fetcher, parser >>

NextDetail == (\E o \in FetchOutcomes : FetchDetail(o)) \/ ReturnDetails

SpecDetail == InitDetail /\ [][NextDetail]_vars

\* ------------------------------------- DetailFetcher._extract_when_to_use
\* (src/src/detail_fetcher.py, lines 187-252)

\* max_chars of _extract_section_text (line 187)
max_chars == 800

\* Most blocks of a page.
MaxBlocks == 3

\* The parsed page is the sequence of the blocks of its body, siblings of one
\* another.  A block has its tag and its text nodes, in document order, each
\* stripped of the blanks around it and not empty (what get_text(sep,
\* strip=True) joins).  Texts are strings.
Block(tag, strings) == [tag |-> tag, strings |-> strings]

RECURSIVE Join(_, _)
\* sep.join(parts)
Join(parts, sep) ==
    IF parts = << >> THEN ""
    ELSE IF Len(parts) = 1 THEN parts[1]
         ELSE parts[1] \o sep \o Join(Tail(parts), sep)

\* c.lower() of one character
LowerChar(c) ==
    LET upper == "ABCDEFGHIJKLMNOPQRSTUVWXYZ"
        small == "abcdefghijklmnopqrstuvwxyz"
    IN  IF \E j \in 1 .. 26 : SubSeq(upper, j, j) = c
        THEN LET j == CHOOSE j \in 1 .. 26 : SubSeq(upper, j, j) = c
             IN  SubSeq(small, j, j)
        ELSE c

RECURSIVE lower(_)
\* s.lower(), character by character (by halves)
lower(s) ==
    IF Len(s) = 0 THEN ""
    ELSE IF Len(s) = 1 THEN LowerChar(s)
         ELSE LET h == Len(s) \div 2
              IN  lower(SubSeq(s, 1, h)) \o lower(SubSeq(s, h + 1, Len(s)))

\* s.startswith(p)
StartsWith(s, p) == Len(s) >= Len(p) /\ SubSeq(s, 1, Len(p)) = p

\* p in s
Contains(s, p) ==
    \E j \in 1 .. Len(s) - Len(p) + 1 : SubSeq(s, j, j + Len(p) - 1) = p

RECURSIVE SectionParts(_, _, _)
\* Lines 207-218: the loop over the siblings after the heading; parts and
\* total as the loop has them when it reaches the siblings sibs.
SectionParts(sibs, parts, total) ==
    IF sibs = << >> THEN parts
    ELSE LET sib   == Head(sibs)
             chunk == Join(sib.strings, "\n")
         IN  IF sib.tag \in {"h2", "h3"} THEN parts
             ELSE IF chunk = "" THEN SectionParts(Tail(sibs), parts, total)
             ELSE IF total + Len(chunk) >= max_chars THEN Append(parts, chunk)
             ELSE SectionParts(Tail(sibs), Append(parts, chunk),
                               total + Len(chunk))

\* Lines 199-205: the h2 and h3 headings whose lower-cased title holds a
\* keyword
MatchingHeadings(page, keywords) ==
    { j \in 1 .. Len(page) :
        /\ page[j].tag \in {"h2", "h3"}
        /\ LET title == lower(Join(page[j].strings, " "))
           IN  title # "" /\ \E k \in keywords : Contains(title, k) }

\* The least of a set of positions
First(positions) == CHOOSE j \in positions : \A k \in positions : j <= k

\* _extract_section_text(soup, keywords): the text under the first matching
\* heading, "" without one.  The final strip() finds no blank to take off.
_extract_section_text(page, keywords) ==
    LET hs == MatchingHeadings(page, keywords) IN
    IF hs = {} THEN ""
    ELSE Join(SectionParts(SubSeq(page, First(hs) + 1, Len(page)), << >>, 0),
              "\n")

RECURSIVE PageLines(_)
\* Line 240: the non-empty lines of the page's text, in document order
PageLines(page) ==
    IF page = << >> THEN << >> ELSE Head(page).strings \o PageLines(Tail(page))

\* Line 247: the prefixes that end the collection
BreakKeywords ==
    {"what is ", "how to ", "install ", "commands", "related ", "reference ",
     "common "}

\* Line 247: the line starts a new section
Breaks(line) == \E k \in BreakKeywords : StartsWith(lower(line), k)

\* Lines 244-249: the lines collected after the line at position h (counted
\* from 1): of lines[i + 1 : i + 15], i = h - 1, those before the first that
\* breaks
Collected(lines, h) ==
    LET last   == IF h + 14 < Len(lines) THEN h + 14 ELSE Len(lines)
        window == SubSeq(lines, h + 1, last)
        stops  == { j \in 1 .. Len(window) : Breaks(window[j]) }
    IN  IF stops = {} THEN window ELSE SubSeq(window, 1, First(stops) - 1)

\* Lines 241-242: the lines that start with the phrase
PhraseLines(lines) ==
    { j \in 1 .. Len(lines) : StartsWith(lower(lines[j]), "when to use") }

\* Lines 239-252: the scan of the text's lines
LineScan(page) ==
    LET lines == PageLines(page) IN
    IF PhraseLines(lines) = {} THEN ""
    ELSE Join(Collected(lines, First(PhraseLines(lines))), "\n")

RECURSIVE Filler(_)
\* A text of n characters
Filler(n) ==
    IF n = 0 THEN ""
    ELSE IF n % 2 = 1 THEN "x" \o Filler(n - 1)
         ELSE LET half == Filler(n \div 2) IN half \o half

\* The blocks pages are made of: headings that match and that do not, of the
\* levels 1 to 4; paragraphs that are empty, short and long; a list of 16
\* items; lines that start with the phrase and with a break keyword.
WhenBlocks ==
    { Block("h2", << "When to Use" >>),
      Block("h3", << "When", "to use this skill" >>),
      Block("h2", << "Installation" >>),
      Block("h1", << "Title" >>),
      Block("h4", << "WHEN TO USE it" >>),
      Block("p", << >>),
      Block("p", << "short text" >>),
      Block("p", << Filler(400) >>),
      Block("p", << Filler(1000) >>),
      Block("ul", [j \in 1 .. 16 |-> "item " \o ToString(j)]),
      Block("p", << "How to install" >>),
      Block("p", << "Commandset", "Install" >>) }

\* The pages
WhenPages == UNION { [1 .. n -> WhenBlocks] : n \in 0 .. MaxBlocks }

InitWhen ==
    /\ soup \in WhenPages
    /\ when_pc = "start"
    /\ section = ""
    /\ when_to_use = ""
    /\ LoaderIdle
    /\ SummarizerIdle
    /\ FetcherIdle
    /\ ParserIdle
    /\ DetailerIdle

\* Line 235: section = self._extract_section_text(soup, ["when to use"])
ExtractSection ==
    /\ when_pc = "start"
    /\ section' = _extract_section_text(soup, {"when to use"})
    /\ when_pc' = "section"
    /\ UNCHANGED << soup, when_to_use, loader, summarizer, fetcher, parser,
                    detailer >>

\* Lines 236-237: a section that is not empty is returned
ReturnSection ==
    /\ when_pc = "section"
    /\ section # ""
    /\ when_to_use' = section
    /\ when_pc' = "returned"
    /\ UNCHANGED << soup, section, loader, summarizer, fetcher, parser,
                    detailer >>

\* Lines 239-252: without one the lines of the text are scanned
ScanLines ==
    /\ when_pc = "section"
    /\ section = ""
    /\ when_to_use' = LineScan(soup)
    /\ when_pc' = "returned"
    /\ UNCHANGED << soup, section, loader, summarizer, fetcher, parser,
                    detailer >>

NextWhen == ExtractSection \/ ReturnSection \/ ScanLines

SpecWhen == InitWhen /\ [][NextWhen]_vars

\* ------------------------------------------------------------- the claims

\* The positions of the returned list that carry a name
ResultsNamed(name) == { k \in 1 .. Len(results) : results[k].name = name }

\* Task i's own attempts ended in a result: its last post returned content
\* and _parse_single_response built a result from it.
OwnSuccess(i) ==
    /\ resp[i] # NoResp
    /\ AttemptExc(resp[i]) = ""
    /\ _parse_single_response(resp[i].content, details[i]).exc = ""

\* The result task i's own attempts determine
OwnResult(i) ==
    IF OwnSuccess(i)
    THEN _parse_single_response(resp[i].content, details[i]).result
    ELSE _fallback_single(details[i])

\* C1: a call on a batch of N records returns exactly N results, and every
\* input record is represented by exactly one result, which carries its name.
C1_OneResultPerRecord ==
    mainpc = "returned" =>
        /\ Len(results) = Len(details)
        /\ \A i \in Items : Cardinality(ResultsNamed(details[i])) = 1

\* C1 witness: a full batch has returned with a task that succeeded, a task
\* that failed after a retry, and a task whose response did not parse.
C1_Witness ==
    /\ mainpc = "returned"
    /\ Len(details) = NumItems
    /\ \E i, j \in Items :
          /\ pc[i] = "succeeded"
          /\ pc[j] = "failed"
          /\ last_exc[j] = "JSONDecodeError"
          /\ resp[j].body = "completion"
          /\ posts[j] > 1

\* C2: the returned list is aligned to the input: output[i].name = input[i].name.
C2_InputOrder ==
    mainpc = "returned" =>
        \A k \in 1 .. Len(results) :
            k <= Len(details) /\ results[k].name = details[k]

\* C3 as claimed: a task is never kept waiting in the queue while a sibling
\* that failed sleeps in backoff on a worker, whatever the batch size.
C3_NeverDelayed ==
    \A i, j \in Items :
        ~(pc[i] = "pending" /\ pc[j] = "retrying" /\ Busy = max_workers)

\* C3 amended: no task is aborted by a sibling's failure: when the call
\* returns, every task has run its own attempts and its result is the one its
\* own last response determines; and in a batch no larger than the pool a
\* queued task never finds every worker taken.
C3_IndependentTasks ==
    /\ mainpc = "returned" =>
          \A i \in Items :
             /\ pc[i] \in {"succeeded", "failed"}
             /\ (max_retries >= 1 => resp[i] # NoResp /\ posts[i] >= 1)
             /\ \E k \in ResultsNamed(details[i]) : results[k] = OwnResult(i)
    /\ (mainpc \in {"submitted", "collecting"} /\ Len(details) <= max_workers) =>
          \A i \in Items : pc[i] = "pending" => Busy < max_workers

\* C3 witness: a batch larger than the pool has returned; one task used up its
\* retry budget and a sibling succeeded.
C3_Witness ==
    /\ mainpc = "returned"
    /\ Len(details) > max_workers
    /\ \E i, j \in Items :
          /\ pc[j] = "failed" /\ posts[j] = max_retries /\ max_retries >= 2
          /\ pc[i] = "succeeded" /\ OwnSuccess(i)

\* The object a decoded response hands to the validation
DecodedObj(content) == FirstElement(DecodeJson(content)).obj

\* C4: every result has a category among the 15 keys and the label CATEGORIES
\* maps it to; a category of the model outside the keys becomes "other", one
\* inside them is kept, and the model's own label is never used.
C4_CategoryAndLabel ==
    /\ \A k \in 1 .. Len(results) :
          /\ results[k].category \in DOMAIN CATEGORIES
          /\ results[k].category_zh = CATEGORIES[results[k].category]
    /\ \A i \in Items :
          pc[i] = "succeeded" =>
             LET c == DecodedObj(resp[i].content).category IN
             /\ future[i].category \in DOMAIN CATEGORIES
             /\ future[i].category_zh = CATEGORIES[future[i].category]
             /\ future[i].category =
                   IF c.k = "str" /\ c.v \in DOMAIN CATEGORIES THEN c.v ELSE "other"

\* C4 witness: the returned list holds a fallback result, and a result built
\* from a response whose category is no key and whose label is made up.
C4_Witness ==
    /\ mainpc = "returned"
    /\ \E k \in 1 .. Len(results) : results[k].fallback
    /\ \E i \in Items :
          /\ pc[i] = "succeeded"
          /\ DecodedObj(resp[i].content).category = CatStr("nonsense")
          /\ DecodedObj(resp[i].content).category_zh # Str(<< "zh:qita" >>)
          /\ \E k \in ResultsNamed(details[i]) : ~results[k].fallback

\* C5: every result's solves is a list of 1 to 5 entries without duplicates.
C5_SolvesListUnique ==
    \A k \in 1 .. Len(results) :
        LET v == results[k].solves IN
        /\ v.k = "list"
        /\ 1 <= Len(v.items) /\ Len(v.items) <= 5
        /\ \A a, b \in 1 .. Len(v.items) : a # b => v.items[a] # v.items[b]

\* C6: when the k-th post of a task is the first to return HTTP OK with
\* content that decodes as JSON, exactly k requests were issued and the
\* result is built from that response, with fallback = false.
C6_SuccessAtAttemptK ==
    \A i \in Items :
        ( /\ pc[i] \in {"succeeded", "failed"}
          /\ AttemptExc(resp[i]) = ""
          /\ resp[i] # NoResp
          /\ DecodeJson(resp[i].content).exc = "" )
        => /\ posts[i] = attempt[i]
           /\ pc[i] = "succeeded"
           /\ future[i].fallback = FALSE
           /\ (mainpc = "returned" =>
                  \E k \in ResultsNamed(details[i]) : ~results[k].fallback)

\* C7: a task whose every one of its max_retries attempts failed is returned
\* as the fallback result: fallback = true, category "other" with its label,
\* the single placeholder for solves, summary and description embedding the
\* record's name.
C7_ExhaustedIsFallback ==
    \A i \in Items :
        ( /\ mainpc = "returned"
          /\ max_retries >= 1
          /\ posts[i] = max_retries
          /\ AttemptExc(resp[i]) # "" )
        => /\ Cardinality(ResultsNamed(details[i])) = 1
           /\ \A k \in ResultsNamed(details[i]) :
                 LET r == results[k] IN
                 /\ r.fallback = TRUE
                 /\ r.category = "other"
                 /\ r.category_zh = CATEGORIES["other"]
                 /\ r.solves = SolvesList(<< "dai-fenxi" >>)
                 /\ r.summary.k = "str" /\ r.description.k = "str"
                 /\ \E p \in 1 .. Len(r.summary.parts) :
                        r.summary.parts[p] = details[i]
                 /\ \E p \in 1 .. Len(r.description.parts) :
                        r.description.parts[p] = details[i]

\* C7 witness: the call returned with a task that failed on each of two or
\* more attempts.
C7_Witness ==
    /\ mainpc = "returned"
    /\ \E i \in Items :
          /\ max_retries >= 2
          /\ posts[i] = max_retries
          /\ AttemptExc(resp[i]) # ""
          /\ resp[i] # NoResp

\* C8: HTTP 401 is fatal: the task fails at once, without a backoff sleep and
\* without a further request (one request in all when the 401 answers the
\* first attempt), and is returned as a fallback result.
C8_UnauthorizedIsFatal ==
    \A i \in Items :
        (resp[i].kind = "http" /\ resp[i].status = 401)
        => /\ pc[i] = "failed"
           /\ posts[i] = attempt[i]
           /\ (attempt[i] = 1 => posts[i] = 1)
           /\ (mainpc = "returned" =>
                  \E k \in ResultsNamed(details[i]) :
                     results[k] = _fallback_single(details[i]))

\* C8 witness: the call returned with a task whose first attempt was answered
\* 401 while attempts remained.
C8_Witness ==
    /\ mainpc = "returned"
    /\ \E i \in Items :
          /\ resp[i].kind = "http" /\ resp[i].status = 401
          /\ attempt[i] = 1
          /\ attempt[i] < max_retries

\* C9: a completion whose content does not decode as JSON is retried: the
\* task fails on it only when no attempt remains.
C9_UndecodableIsRetried ==
    \A i \in Items :
        ( /\ pc[i] = "failed"
          /\ AttemptExc(resp[i]) = ""
          /\ resp[i] # NoResp
          /\ DecodeJson(resp[i].content).exc # "" )
        => attempt[i] >= max_retries

\* The state of task i in the terms of the task state machine
TaskState(i) ==
    CASE pc[i] = "pending"   -> "PENDING"
      [] pc[i] = "in_flight" -> "IN_FLIGHT"
      [] pc[i] = "retrying"  -> "RETRYING"
      [] pc[i] = "succeeded" -> "SUCCEEDED"
      [] pc[i] = "failed" /\ mainpc # "returned" -> "FAILED_TERMINAL"
      [] OTHER               -> "FALLBACK"

\* The transitions of the task state machine
Transitions ==
    { << "PENDING", "IN_FLIGHT" >>, << "IN_FLIGHT", "SUCCEEDED" >>,
      << "IN_FLIGHT", "RETRYING" >>, << "RETRYING", "IN_FLIGHT" >>,
      << "IN_FLIGHT", "FAILED_TERMINAL" >>, << "FAILED_TERMINAL", "FALLBACK" >> }

\* Every task moves along the given transitions only
FollowsTransitions(allowed) ==
    \A i \in Items :
        TaskState(i)' # TaskState(i) => << TaskState(i), TaskState(i)' >> \in allowed

TaskRank(i) ==
    LET m == IF max_retries < 1 THEN 1 ELSE max_retries IN
    CASE pc[i] = "pending"   -> 2 * m + 1
      [] pc[i] = "in_flight" -> 2 * (m - attempt[i]) + 2
      [] pc[i] = "retrying"  -> 2 * (m - attempt[i]) + 1
      [] OTHER               -> 0

RECURSIVE SumRank(_)
SumRank(n) == IF n = 0 THEN 0 ELSE TaskRank(n) + SumRank(n - 1)

Remaining ==
    SumRank(Len(details)) + (Len(details) - Cardinality(yielded))
    + (CASE mainpc = "start" -> 3 [] mainpc = "submitted" -> 2
         [] mainpc = "collecting" -> 1 [] OTHER -> 0)

ElementOf(c) == IF c.shape = "empty_array" THEN EmptyObj ELSE c.obj

\* An object whose fields have the types the parser reads them with
WellTyped(obj) ==
    obj.category.k # "list" /\ obj.solves.k \notin {"null", "number"}

\* The responses C18 is about: JSON inside a fenced block, and JSON arrays
\* (fenced or not) that are empty or start with an object.
FencedOrArray(c) ==
    /\ c.text = "json"
    /\ c.fence \in {"none", "block"}
    /\ c.shape \in {"object", "array", "empty_array"}
    /\ c.fence = "block" \/ c.shape \in {"array", "empty_array"}

\* C18: a response wrapped in a markdown code fence and a response whose JSON
\* value is an array are accepted: the task of such a response ends exactly
\* as the task of the bare object would (the fence is stripped before
\* decoding, the first element of the array is the object validated), and
\* when the object's fields are well typed nothing is raised and the result
\* is the validated object with fallback = FALSE.
C18_FenceAndArrayAccepted ==
    \A i \in Items :
        ( /\ AttemptExc(resp[i]) = ""
          /\ resp[i].body = "completion"
          /\ FencedOrArray(resp[i].content) ) =>
        LET c    == resp[i].content
            bare == _parse_single_response(
                        Content("none", "json", "object", ElementOf(c)),
                        details[i])
        IN  /\ last_exc[i] = bare.exc
            /\ future[i] = bare.result
            /\ WellTyped(ElementOf(c)) =>
                  /\ pc[i] = "succeeded"
                  /\ future[i].name = details[i]
                  /\ future[i].fallback = FALSE
                  /\ future[i].category = ValidCategory(ElementOf(c).category)
                  /\ future[i].solves = ResultSolves(ElementOf(c).solves)

\* C18 witness: the call returned the result built from the first element of
\* a fenced array.
C18_Witness ==
    /\ mainpc = "returned"
    /\ \E i \in Items :
          /\ resp[i].body = "completion"
          /\ resp[i].content.fence = "block"
          /\ resp[i].content.shape = "array"
          /\ resp[i].content.text = "json"
          /\ pc[i] = "succeeded"
          /\ \E k \in 1 .. Len(results) :
                results[k] = future[i] /\ ~results[k].fallback

\* ---------------------------------------------------------------- C19

\* C19 as claimed: a task sleeps only after a retryable failure on an attempt
\* that is not the last, and the sleep before attempt k+1 lasts at least
\* 1.6^(k-1) seconds, less than 1.6^(k-1)+1 seconds and at most 20 seconds.
C19_SleepBounds ==
    \A i \in Items :
        pc[i] = "retrying" =>
            LET k == attempt[i]
                s == sleep_s[i]
            IN  /\ s.den = 4 * Pow(5, k - 1)
                /\ s.num >= 4 * Pow(8, k - 1)
                /\ s.num < 4 * Pow(8, k - 1) + 4 * Pow(5, k - 1)
                /\ s.num <= 20 * s.den

\* C19 amended: a task sleeps only after a retryable failure on an attempt
\* that is not the last (never after the final attempt, a fatal failure or a
\* success); the sleep before attempt k+1 is min(20, 1.6^(k-1) + r) seconds
\* with 0 <= r < 1: never more than 20 seconds, less than 1.6^(k-1)+1
\* seconds, and at least 1.6^(k-1) seconds unless it is the cap of 20.
C19_BackoffSleep ==
    \A i \in Items :
        LET k == attempt[i]
            s == sleep_s[i]
        IN  /\ pc[i] = "retrying" =>
                  /\ AttemptExc(resp[i]) # ""
                  /\ _should_retry(AttemptExc(resp[i]), StatusCode(resp[i]))
                  /\ k < max_retries
                  /\ s.den = 4 * Pow(5, k - 1)
                  /\ s.num <= 20 * s.den
                  /\ s.num < 4 * Pow(8, k - 1) + 4 * Pow(5, k - 1)
                  /\ s.num >= 4 * Pow(8, k - 1) \/ s.num = 20 * s.den
            /\ pc[i] # "retrying" => s = NoSleep

\* C19 witness: a task sleeps the capped 20 seconds after its eighth attempt
\* or a later one failed with a retryable error.
C19_Witness ==
    \E i \in Items :
        /\ pc[i] = "retrying"
        /\ attempt[i] >= 8
        /\ sleep_s[i].num = 20 * sleep_s[i].den
        /\ sleep_s[i].num < 4 * Pow(8, attempt[i] - 1)

\* ---------------------------------------------------------------- C15

\* A token that is a number followed by K: digits with at most one dot
NumberK(t) ==
    /\ Len(t) >= 2
    /\ t[Len(t)] = "K"
    /\ \A j \in 1 .. Len(t) - 1 : t[j] \in Digits \cup {"."}
    /\ Cardinality({ j \in 1 .. Len(t) - 1 : t[j] = "." }) <= 1
    /\ \E j \in 1 .. Len(t) - 1 : t[j] \in Digits

\* The number before the K times 1000, cut to an integer
ThousandsOf(t) ==
    LET d    == SubSeq(t, 1, Len(t) - 1)
        dots == { j \in 1 .. Len(d) : d[j] = "." }
        frac == IF dots = {} THEN 0 ELSE Len(d) - (CHOOSE j \in dots : TRUE)
    IN  (DigitsValue(Without(d, ".")) * 1000) \div Pow(10, frac)

\* C15: _parse_installs maps a token with a trailing K to its numeric prefix
\* times 1000 cut to an integer, a token of digits to its value, an empty
\* token or one without digits to 0; it never returns a negative number and
\* never raises.
C15_ParseInstalls ==
    installs.exc \notin {"idle", "pending"} =>
        LET t == installs_str IN
        /\ installs.exc = ""
        /\ installs.value >= 0
        /\ NumberK(t) => installs.value = ThousandsOf(t)
        /\ (t # << >> /\ \A j \in 1 .. Len(t) : t[j] \in Digits) =>
              installs.value = DigitsValue(t)
        /\ (\A j \in 1 .. Len(t) : t[j] \notin Digits) => installs.value = 0

\* -------------------------------------------------- C11 to C14, C20

\* The text holds one of the four recognized markers
HasMarker ==
    \E j \in 1 .. Len(html_content) :
        /\ html_content[j].kind = "marker"
        /\ html_content[j].text \in
              { "SKILLS LEADERBOARD", "Skills Leaderboard", "LEADERBOARD",
                "Leaderboard" }

\* The text after the anchor, and the matches of each grammar in it
Scanned == ContentFrom(html_content, leaderboard_start)

GrammarMatches(g) == Matches(g, Scanned)

\* Some grammar matches a record of the scanned text
SomeGrammarMatches == \E g \in 1 .. 4 : GrammarMatches(g) # << >>

\* The first grammar, in their order, with a match
FirstMatching ==
    CHOOSE g \in 1 .. 4 :
        GrammarMatches(g) # << >> /\ \A h \in 1 .. g - 1 : GrammarMatches(h) = << >>

\* The matches of the winning grammar
WinningMatches ==
    IF SomeGrammarMatches THEN GrammarMatches(FirstMatching) ELSE << >>

\* The names among matches wm
NamesOf(wm) == { wm[j].name : j \in 1 .. Len(wm) }

\* The matches of a name among wm, and the least rank among them
MatchesOf(wm, name) == { j \in 1 .. Len(wm) : wm[j].name = name }

LeastRank(wm, name) ==
    LET ranks == { wm[j].rank : j \in MatchesOf(wm, name) }
    IN  CHOOSE r \in ranks : \A q \in ranks : r <= q

\* C11: parse_leaderboard raises, returning no list, exactly when the text
\* holds none of the recognized markers (the empty text included); with a
\* marker present it does not raise.
C11_NoMarkerRaises ==
    fetch_pc \notin {"idle", "start"} =>
        /\ fetch_pc = "raised" <=> ~HasMarker
        /\ fetch_pc = "raised" => skills = << >> /\ skills_dict = << >>

\* C11 witness: the call raised on a page that has records and the word
\* "leaderboard" in a spelling that is not looked for.
C11_Witness ==
    /\ fetch_pc = "raised"
    /\ \E j \in 1 .. Len(html_content) : html_content[j].text = "leaderboard"
    /\ \E j \in 1 .. Len(html_content) : html_content[j].kind = "record"

\* C12: with a marker present and no grammar matching any record after it,
\* the call of parse_leaderboard ends in an error, not in an empty list.
C12_NoMatchRaises ==
    ( /\ fetch_pc \in {"returned", "raised"}
      /\ HasMarker
      /\ ~SomeGrammarMatches ) => fetch_pc = "raised"

C20_FirstGrammarOnly ==
    (fetch_pc = "returned" /\ SomeGrammarMatches) =>
        LET wm == WinningMatches IN
        /\ pattern_i = FirstMatching
        /\ \A a \in 1 .. Len(skills) :
              \E j \in 1 .. Len(wm) : Entry(wm[j]) = skills[a]
        /\ { skills[a].name : a \in 1 .. Len(skills) } \subseteq NamesOf(wm)

\* C20 witness: a list was returned by the first grammar from a page with a
\* record that only a later grammar matches; its name is not in the list.
C20_Witness ==
    /\ fetch_pc = "returned"
    /\ skills # << >>
    /\ LET first == FirstMatching
           text  == Scanned
       IN  \E j \in 1 .. Len(text) :
              /\ \E g \in 1 .. 4 : g > first /\ PatternMatches(g, text[j])
              /\ ~PatternMatches(first, text[j])
              /\ \A a \in 1 .. Len(skills) : skills[a].name # text[j].name

\* ---------------------------------------------------------- C16, C17

\* C16: in every record of the detail stage, parsed or standing for a
\* failure, rules_count is the length of rules.
C16_RulesCount ==
    \A j \in 1 .. Len(detail_results) :
        detail_results[j].rules_count = Len(detail_results[j].rules)

\* C16 witness: a returned list holds a parsed record with rules taken from
\* a list that has an item without a link, and the record of a failure.
C16_Witness ==
    /\ detail_pc = "returned"
    /\ \E j \in 1 .. Len(detail_results) :
          /\ detail_results[j].error = ""
          /\ Len(detail_results[j].rules) = 3
          /\ \E l \in 1 .. Len(PageOf(j).lists) :
                Len(PageOf(j).lists[l].items) = 4
    /\ \E j \in 1 .. Len(detail_results) : detail_results[j].error # ""

\* C17: fetch_top20_details returns min(20, len(skills)) records, the i-th
\* for the i-th skill, whatever fetches or parses fail: a failed item gives
\* the placeholder record (empty when_to_use, no rules, rules_count 0, an
\* error marker), the list is never shortened, and every other record is the
\* one its own page gives.
C17_OneRecordPerSkill ==
    /\ detail_pc \in {"idle", "loop", "returned"}
    /\ detail_pc = "loop" /\ detail_i < TopCount =>
          \A o \in FetchOutcomes :
              Failures(detail_results) < MaxFailures => ENABLED FetchDetail(o)
    /\ detail_pc = "returned" =>
        /\ Len(detail_results) =
              IF Len(top_skills) < 20 THEN Len(top_skills) ELSE 20
        /\ \A j \in 1 .. Len(detail_results) :
              LET r == detail_results[j] IN
              /\ r.name = top_skills[j].name
              /\ r.owner = top_skills[j].owner
              /\ r.error # "" =>
                    /\ r.when_to_use = << >>
                    /\ r.rules = << >>
                    /\ r.rules_count = 0
              /\ r.error = "" =>
                    r = parse_detail_page(PageOf(j), UrlOf(top_skills[j]),
                                          top_skills[j])

\* C17 witness: of more than twenty skills twenty records were returned, with
\* a failed item between two items that were fetched.
C17_Witness ==
    /\ detail_pc = "returned"
    /\ Len(top_skills) > 20
    /\ Len(detail_results) = 20
    /\ \E a, b, c \in 1 .. Len(detail_results) :
          /\ a < b /\ b < c
          /\ detail_results[a].error = ""
          /\ detail_results[b].error # ""
          /\ detail_results[c].error = ""
          /\ detail_results[c].rules # << >>

\* ---------------------------------------------------------------- C21

\* A text that is missing or blank: no key, null, the empty string, or blanks
\* only
Blank(t) ==
    \/ t.k \in {"absent", "null"}
    \/ t.k = "str" /\ \A p \in 1 .. Len(t.parts) : t.parts[p] \in {"", " "}

\* C21: in every result built from a decoded response the summary is the
\* placeholder made of the record's name whenever the response's summary is
\* missing or blank (no key, null, empty, blanks only), and no result has an
\* empty summary.
C21_SummaryPlaceholder ==
    \A i \in Items :
        pc[i] = "succeeded" =>
            /\ Blank(DecodedObj(resp[i].content).summary) =>
                  future[i].summary = Str(<< details[i], " jineng" >>)
            /\ ~Blank(future[i].summary)

\* ---------------------------------------------------------- C22, C23

\* The level of a heading tag, 0 for another tag
Level(tag) ==
    CASE tag = "h1" -> 1 [] tag = "h2" -> 2 [] tag = "h3" -> 3
      [] tag = "h4" -> 4 [] OTHER -> 0

\* The heading whose section is extracted
TheHeading == First(MatchingHeadings(soup, {"when to use"}))

\* The blocks of the heading's section: its siblings up to the next heading
\* of its level or a higher one
SectionBlocks ==
    LET after == SubSeq(soup, TheHeading + 1, Len(soup))
        ends  == { j \in 1 .. Len(after) :
                     /\ Level(after[j].tag) > 0
                     /\ Level(after[j].tag) <= Level(soup[TheHeading].tag) }
    IN  IF ends = {} THEN after ELSE SubSeq(after, 1, First(ends) - 1)

\* The texts of the section's blocks that have any
SectionChunks ==
    SelectSeq([j \in 1 .. Len(SectionBlocks) |->
                  Join(SectionBlocks[j].strings, "\n")],
              LAMBDA c : c # "")

\* C22: the text extracted under a matching heading is never longer than the
\* budget of 800 characters, and it is collected from the heading's siblings
\* up to the next heading of equal or higher level: it is made of the first
\* texts of that section, of all of them when they fit the budget.
C22_SectionCapped ==
    (when_pc \in {"section", "returned"}
       /\ MatchingHeadings(soup, {"when to use"}) # {}) =>
        /\ Len(section) <= max_chars
        /\ \E n \in 0 .. Len(SectionChunks) :
              section = Join(SubSeq(SectionChunks, 1, n), "\n")
        /\ Len(Join(SectionChunks, "\n")) <= max_chars =>
              section = Join(SectionChunks, "\n")

\* The lines the claim has collected after the line at position h: of the
\* next 15 lines those before the first that starts with a break keyword
NextFifteen(lines, h) ==
    LET last   == IF h + 15 < Len(lines) THEN h + 15 ELSE Len(lines)
        window == SubSeq(lines, h + 1, last)
        stops  == { j \in 1 .. Len(window) : Breaks(window[j]) }
    IN  IF stops = {} THEN window ELSE SubSeq(window, 1, First(stops) - 1)

\* C23: when no heading matches, the text returned is made of the lines that
\* follow the first line starting with "when to use" (in any case): up to 15
\* of them, in their order, ending before the first line that starts with a
\* break keyword.
C23_LineScan ==
    (when_pc = "returned" /\ MatchingHeadings(soup, {"when to use"}) = {}
       /\ PhraseLines(PageLines(soup)) # {}) =>
        when_to_use =
            Join(NextFifteen(PageLines(soup),
                             First(PhraseLines(PageLines(soup)))), "\n")

\* ---------------------------------------------------------------- C24

\* The requests max_retries allows a task
RequestBudget == IF max_retries < 0 THEN 0 ELSE max_retries

Position(i) == CHOOSE k \in ResultsNamed(details[i]) : TRUE

\* The place of an entry in the record of completions
DoneAt(i) == CHOOSE a \in 1 .. Len(completed) : completed[a] = i

\* Task i completed before task j
CompletedBefore(i, j) == DoneAt(i) < DoneAt(j)

\* Task i was done when as_completed was called
Early(i) == DoneAt(i) < DoneAt(0)

\* Every fallback result stands after every other result
FallbacksLast ==
    \A k, l \in 1 .. Len(results) :
        (results[k].fallback /\ ~results[l].fallback) => l < k

\* C25 as claimed: in the returned list the fallback results follow the
\* others, the others stand in the order their tasks completed and the
\* fallback results in the order their tasks failed.
C25_CompletionOrder ==
    mainpc = "returned" =>
        /\ FallbacksLast
        /\ \A i, j \in Items :
              (pc[i] = pc[j] /\ CompletedBefore(i, j)) =>
                  Position(i) < Position(j)

\* C25 amended: in the returned list the fallback results follow the others;
\* among the others, and among the fallback results, a task whose future
\* completed after as_completed was called stands after every task that
\* completed before it; the tasks already done at that call stand first, in
\* no particular order.
C25_YieldOrder ==
    mainpc = "returned" =>
        /\ FallbacksLast
        /\ \A k \in 1 .. Len(results) :
              results[k].fallback <=> (\E i \in Items : pc[i] = "failed"
                                          /\ Position(i) = k)
        /\ \A i, j \in Items :
              (pc[i] = pc[j] /\ CompletedBefore(i, j) /\ ~Early(j)) =>
                  Position(i) < Position(j)

\* C25 witness: a batch returned whose first task failed and whose second
\* task succeeded after it, once as_completed was waiting: the fallback
\* result stands last.
C25_Witness ==
    /\ mainpc = "returned"
    /\ Len(details) = 2
    /\ pc[1] = "failed" /\ pc[2] = "succeeded"
    /\ CompletedBefore(1, 2) /\ ~Early(2)
    /\ Position(2) = 1 /\ Position(1) = 2

\* ---------------------------------------------------------------- C26

\* Task i raised: it had no attempt to make, its last attempt raised, or the
\* parsing of the content returned raised
Raised(i) ==
    \/ max_retries < 1
    \/ AttemptExc(resp[i]) # ""
    \/ _parse_single_response(resp[i].content, details[i]).exc # ""

\* The content decodes to the empty array or to an object without any of the
\* keys
DecodesEmpty(c) ==
    /\ DecodeJson(c).exc = ""
    /\ DecodeJson(c).shape \in {"object", "empty_array"}
    /\ DecodedObj(c) = EmptyObj

\* C26: a result has fallback = true exactly when its task raised (no
\* attempt left, a fatal failure, or an exception in parsing the response);
\* a response that decodes to the empty array or to an object with none of
\* the keys gives a result with fallback = false, category "other", the
\* single placeholder for solves and the placeholder made of the name for
\* summary.
C26_FallbackIffRaised ==
    \A i \in Items :
        /\ pc[i] \in {"succeeded", "failed"} =>
              /\ pc[i] = "failed" <=> Raised(i)
              /\ mainpc = "returned" =>
                    /\ Cardinality(ResultsNamed(details[i])) = 1
                    /\ results[Position(i)].fallback <=> Raised(i)
        /\ ( /\ pc[i] \in {"succeeded", "failed"}
             /\ resp[i] # NoResp
             /\ AttemptExc(resp[i]) = ""
             /\ DecodesEmpty(resp[i].content) ) =>
              /\ pc[i] = "succeeded"
              /\ future[i].fallback = FALSE
              /\ future[i].category = "other"
              /\ future[i].category_zh = CATEGORIES["other"]
              /\ future[i].solves = SolvesList(<< "dai-fenxi" >>)
              /\ future[i].summary = Str(<< details[i], " jineng" >>)
              /\ mainpc = "returned" => results[Position(i)] = future[i]

\* C26 witness: a call returned the result built from a response that is the
\* empty array, inside a code fence.
C26_Witness ==
    /\ mainpc = "returned"
    /\ \E i \in Items :
          /\ resp[i].body = "completion"
          /\ resp[i].content.shape = "empty_array"
          /\ resp[i].content.fence = "block"
          /\ results[Position(i)].fallback = FALSE
          /\ results[Position(i)].category = "other"

\* ---------------------------------------------------------------- C28

\* The markers (by their place in the order of preference) the text holds
Present == { m \in 1 .. Len(Markers) :
               \E j \in 1 .. Len(html_content) :
                   Occurs(Markers[m], html_content[j]) }

\* The segments that hold marker m
Holding(m) == { j \in 1 .. Len(html_content) :
                  Occurs(Markers[m], html_content[j]) }

\* C28: the scan is anchored at the first occurrence of the marker that comes
\* first in the order of preference among those the text holds, wherever the
\* other markers stand, and every entry returned is made of a record at or
\* after the anchor.
C28_AnchorAtPreferredMarker ==
    fetch_pc \in {"scanning", "sorting", "returned"} =>
        /\ \E m \in Present :
              /\ \A n \in Present : m <= n
              /\ leaderboard_start \in Holding(m)
              /\ \A j \in Holding(m) : leaderboard_start <= j
        /\ \A k \in 1 .. Len(skills) :
              \E j \in leaderboard_start .. Len(html_content) :
                  /\ html_content[j].kind = "record"
                  /\ skills[k] = Entry(html_content[j])

\* C28 witness: a call returned on a page where a marker of lower preference
\* and a record a grammar matches stand before the anchor, and the record is
\* not returned.
C28_Witness ==
    /\ fetch_pc = "returned"
    /\ \E j \in 1 .. leaderboard_start - 1 :
          \E m \in 1 .. Len(Markers) : Occurs(Markers[m], html_content[j])
    /\ \E j \in 1 .. leaderboard_start - 1 :
          /\ html_content[j].kind = "record"
          /\ \E p \in 1 .. 4 : PatternMatches(p, html_content[j])
          /\ \A k \in 1 .. Len(skills) : skills[k].name # html_content[j].name

\* ---------------------------------------------------------------- C27

\* The attempts made so far that failed
FailedAttempts == { a \in 1 .. Len(load_log) : load_log[a] # "" }

\* C27: _fetch_async makes at most 3 attempts; it returns at the first whose
\* parse gives a list that is not empty; an attempt that raises (the missing
\* marker included) or gives the empty list has failed; 5 seconds are waited
\* after each failed attempt but the third; after the third the exception of
\* that attempt leaves the call, and the raise after the loop is never
\* reached.
C27_ThreeAttempts ==
    /\ load_pc # "exhausted"
    /\ Len(load_log) <= 3 /\ load_attempt < 3
    /\ \A w \in 1 .. Len(load_waits) : load_waits[w] = 5
    \* an attempt is under way after the failed ones, each of them waited for
    /\ load_pc \in {"loading", "parsing"} =>
          /\ Len(load_log) = load_attempt
          /\ FailedAttempts = 1 .. Len(load_log)
          /\ Len(load_waits) = Len(load_log)
    \* how an attempt that parsed has ended
    /\ (load_pc \in {"sleeping", "returned", "raised"}
          /\ load_log[Len(load_log)] # "PlaywrightError") =>
          /\ load_log[Len(load_log)] = "NoMarker" <=> Present = {}
          /\ load_log[Len(load_log)] = "NoSkills" <=>
                (Present # {} /\ skills = << >>)
          /\ load_log[Len(load_log)] = "" <=> skills # << >>
    /\ load_pc = "sleeping" =>
          /\ Len(load_log) = load_attempt + 1 /\ Len(load_log) < 3
          /\ FailedAttempts = 1 .. Len(load_log)
          /\ Len(load_waits) = Len(load_log) - 1
    /\ load_pc = "returned" =>
          /\ load_result # << >> /\ load_result = skills
          /\ FailedAttempts = 1 .. Len(load_log) - 1
          /\ Len(load_waits) = Len(load_log) - 1
          /\ load_exc = ""
    /\ load_pc = "raised" =>
          /\ Len(load_log) = 3
          /\ FailedAttempts = 1 .. 3
          /\ Len(load_waits) = 2
          /\ load_exc = load_log[3]
          /\ load_result = << >>

\* C27 witness: the call raised the exception of its third attempt, an empty
\* list, after an attempt without a marker and one the browser failed.
C27_Witness ==
    /\ load_pc = "raised"
    /\ load_log = << "NoMarker", "PlaywrightError", "NoSkills" >>
    /\ load_exc = "NoSkills"
    /\ load_waits = << 5, 5 >>

====
